---- MODULE Spec2Model ----
(***************************************************************************)
(* A model of kodegen-native-notify: the notification lifecycle state      *)
(* machine (components/lifecycle.rs) and the NotificationManager with its  *)
(* store and background workers (lib.rs).                                  *)
(*                                                                         *)
(* Conventions.  An Option<T> is a set: {} is None and {v} is Some(v).     *)
(* A lifecycle state is a record [name, platform_errors]; only Failed      *)
(* carries a non-empty platform_errors (the keys of                        *)
(* ErrorDetails.platform_errors).  Instants are values of a logical clock. *)
(***************************************************************************)
EXTENDS Integers, Sequences, FiniteSets, TLC

VARIABLES
    clock,      \* the logical time DefaultableInstant::now() reads
    lc,         \* a NotificationLifecycle object driven directly by a caller
    lastCall,   \* the last transition_to call made on lc and what it returned
    accepted,   \* number of transition_to calls on lc that returned Ok
    retryVia,   \* the state a retrying caller re-enters from Failed
    platform_backends,  \* NotificationManager.platform_backends (its keys)
    notif,      \* the Notification values callers hold, by identity.id
    store,      \* NotificationManager.state: NotificationId -> NotificationState
    inserts,    \* per id, how many send() calls have inserted a record
    lastSend,   \* the last send() call and what it returned
    dw,         \* the delivery worker: phase, jobs, position, buffered results
    shutdown_sent,  \* the shutdown broadcast has been sent
    running,    \* the worker tasks that have not left their loop
    panicked,   \* the worker tasks that ended in a panic
    sd,         \* the shutdown_with_timeout call: phase, entries visited,
                \* backend.cancel calls made, value returned
    builder,    \* a NotificationBuilder a caller is filling, and what build() returned
    auth,       \* an AuthorizationState a caller queries, and what the queries returned
    matrix,     \* a capability map and the FeatureMatrix built from it
    mac,        \* the macOS backend: its deliver_notification calls and the
                \* notification center's queues
    img,        \* the process-wide image cache, the temp files on disk, the download calls
    rt          \* the async runtime: its threads and the tasks parked inside a lock

lcVars == <<lc, lastCall, accepted, retryVia>>
sdVars == <<panicked, sd>>
fnVars == <<builder, auth, matrix, mac>>
procVars == <<img, rt>>
mgrVars == <<platform_backends, notif, store, inserts, lastSend, dw, shutdown_sent, running,
             panicked, sd>>
vars == <<clock, lc, lastCall, accepted, retryVia, platform_backends, notif, store,
          inserts, lastSend, dw, shutdown_sent, running, panicked, sd,
          builder, auth, matrix, mac, img, rt>>

(***************************************************************************)
(* Bounds of the model.                                                    *)
(***************************************************************************)
MaxTime == 1
LcMaxTime == 1
MaxCalls == 7
MaxLoopHistory == 103
MaxIds == 1
MaxTargets == 2
MaxInserts == 1
MaxPrep == 3
RpMaxAttempts == 6
RpMaxHistory == 3

(***************************************************************************)
(* Option helpers.                                                         *)
(***************************************************************************)
None == {}
Some(v) == {v}
IsSome(o) == o # {}
Unwrap(o) == CHOOSE v \in o : TRUE

(***************************************************************************)
(* Platform (components/platform.rs).                                      *)
(***************************************************************************)
Platform == {"MacOS", "Windows", "Linux", "Web", "IOs", "Android"}

(***************************************************************************)
(* NotificationState (components/lifecycle.rs).                            *)
(***************************************************************************)
StateNames ==
    {"Created", "Validating", "PlatformRouting", "Queued", "Delivering",
     "Delivered", "InteractionPending", "InteractionReceived",
     "ProcessingResponse", "Updated", "Cancelled", "Expired", "Failed",
     "Completed"}

St(n) == [name |-> n, platform_errors |-> {}]
Failed(errs) == [name |-> "Failed", platform_errors |-> errs]

\* A mutant of can_transition_to: Expired lets a late delivery result through.
can_transition_to_leaky(s, t) ==
    CASE s.name = "Created" -> t.name \in {"Validating", "Cancelled"}
      [] s.name = "Validating" -> t.name \in {"PlatformRouting", "Failed", "Cancelled"}
      [] s.name = "PlatformRouting" ->
            t.name \in {"Queued", "Delivering", "Failed", "Cancelled"}
      [] s.name = "Queued" -> t.name \in {"Delivering", "Expired", "Cancelled"}
      [] s.name = "Delivering" ->
            t.name \in {"Delivered", "Failed", "Expired", "Cancelled"}
      [] s.name = "Delivered" ->
            t.name \in {"InteractionPending", "InteractionReceived", "Updated",
                        "Expired", "Completed"}
      [] s.name = "InteractionPending" ->
            t.name \in {"InteractionReceived", "ProcessingResponse", "Expired"}
      [] s.name = "InteractionReceived" -> t.name \in {"ProcessingResponse", "Completed"}
      [] s.name = "ProcessingResponse" ->
            t.name \in {"InteractionPending", "Completed", "Failed"}
      [] s.name = "Updated" -> t.name \in {"Delivering", "InteractionPending", "Completed"}
      [] s.name = "Failed" ->
            t.name \in {"Validating", "PlatformRouting", "Delivering", "Cancelled"}
      [] s.name = "Cancelled" -> FALSE
      [] s.name = "Expired" -> t.name \in {"Delivered", "Failed"}
      [] s.name = "Completed" -> FALSE
      [] OTHER -> FALSE

can_transition_to(s, t) ==
    CASE s.name = "Created" -> t.name \in {"Validating", "Cancelled"}
      [] s.name = "Validating" -> t.name \in {"PlatformRouting", "Failed", "Cancelled"}
      [] s.name = "PlatformRouting" ->
            t.name \in {"Queued", "Delivering", "Failed", "Cancelled"}
      [] s.name = "Queued" -> t.name \in {"Delivering", "Expired", "Cancelled"}
      [] s.name = "Delivering" ->
            t.name \in {"Delivered", "Failed", "Expired", "Cancelled"}
      [] s.name = "Delivered" ->
            t.name \in {"InteractionPending", "InteractionReceived", "Updated",
                        "Expired", "Completed"}
      [] s.name = "InteractionPending" ->
            t.name \in {"InteractionReceived", "ProcessingResponse", "Expired"}
      [] s.name = "InteractionReceived" -> t.name \in {"ProcessingResponse", "Completed"}
      [] s.name = "ProcessingResponse" ->
            t.name \in {"InteractionPending", "Completed", "Failed"}
      [] s.name = "Updated" -> t.name \in {"Delivering", "InteractionPending", "Completed"}
      [] s.name = "Failed" ->
            t.name \in {"Validating", "PlatformRouting", "Delivering", "Cancelled"}
      [] s.name = "Cancelled" -> FALSE
      [] s.name = "Expired" -> FALSE
      [] s.name = "Completed" -> FALSE
      [] OTHER -> FALSE

is_terminal(s) == s.name \in {"Cancelled", "Expired", "Completed"}

\* What callers pass to transition_to.
CallTargets == {St(n) : n \in StateNames \ {"Failed"}} \cup {Failed({})}
CallReasons == {"SystemEvent"}

NoCall == [made |-> FALSE]

(***************************************************************************)
(* NotificationTiming, RetryPolicy, ExpirationPolicy, PerformanceMetrics.   *)
(***************************************************************************)
NotificationTiming_new(created_at) ==
    [created_at |-> created_at,
     validation_started |-> None, validation_duration |-> None,
     platform_routing_started |-> None,
     queued_at |-> None, queue_duration |-> None,
     delivery_started |-> None, delivery_duration |-> None,
     delivered_at |-> None, last_interaction |-> None,
     failed_at |-> None, expired_at |-> None,
     total_processing_time |-> None]

\* RetryPolicy::default(); the clock counts seconds.
DEFAULT_MAX_ATTEMPTS == 3
DEFAULT_BREAKER_THRESHOLD == 5
DEFAULT_BREAKER_TIMEOUT == 300

RetryPolicy_default ==
    [max_attempts |-> DEFAULT_MAX_ATTEMPTS,
     current_attempt |-> 0,
     circuit_breaker_state |-> "Closed",
     circuit_breaker_threshold |-> DEFAULT_BREAKER_THRESHOLD,
     circuit_breaker_opened_at |-> None,
     circuit_breaker_timeout |-> DEFAULT_BREAKER_TIMEOUT,
     consecutive_failures |-> 0,
     last_error |-> None,
     last_attempt |-> None]

\* ExpirationPolicy: its fields are public; callers set ttl and the timeouts
\* (ExpirationPolicy::default() is one such choice: 3600 s, 30 s, 600 s) and
\* the model draws them from small sets of seconds.
ExpirationPolicy_with(ttl, delivery_timeout) ==
    [ttl |-> ttl, expires_at |-> None, delivery_timeout |-> delivery_timeout,
     interaction_timeout |-> delivery_timeout]

PerformanceMetrics_new ==
    [state_transitions |-> <<>>, total_state_transitions |-> 0]

\* A mutant of record_state_transition: the counter is not bumped when the
\* metric closes a previous one.
record_state_transition_skip(pm, from_state, to_state, timestamp) ==
    [state_transitions |->
        Append(pm.state_transitions,
               [from_state |-> from_state, to_state |-> to_state,
                timestamp |-> timestamp, duration_in_previous_state |-> None]),
     total_state_transitions |->
        IF pm.state_transitions = <<>> THEN pm.total_state_transitions + 1
        ELSE pm.total_state_transitions]

record_state_transition(pm, from_state, to_state, timestamp) ==
    LET n == Len(pm.state_transitions)
        closed ==
            IF n = 0 THEN pm.state_transitions
            ELSE [pm.state_transitions EXCEPT
                    ![n].duration_in_previous_state =
                        Some(timestamp - pm.state_transitions[n].timestamp)]
    IN  [state_transitions |->
            Append(closed,
                   [from_state |-> from_state, to_state |-> to_state,
                    timestamp |-> timestamp, duration_in_previous_state |-> None]),
         total_state_transitions |-> pm.total_state_transitions + 1]

(***************************************************************************)
(* NotificationLifecycle.                                                  *)
(***************************************************************************)
NoPlatformState == [status |-> "Absent"]

NotificationLifecycle_new(now, ttl, delivery_timeout) ==
    [state |-> St("Created"),
     platform_states |-> [p \in Platform |-> NoPlatformState],
     timing |-> NotificationTiming_new(now),
     retry_policy |-> RetryPolicy_default,
     expiration |-> ExpirationPolicy_with(ttl, delivery_timeout),
     delivery_receipt |-> None,
     state_history |->
        <<[from_state |-> None, to_state |-> St("Created"), timestamp |-> now,
           reason |-> "Initial", correlation_id |-> None]>>,
     performance_metrics |-> PerformanceMetrics_new]

\* The match on the new state in transition_to that stamps the timing fields.
timing_on_transition(t, new_state, now) ==
    CASE new_state.name = "Validating" -> [t EXCEPT !.validation_started = Some(now)]
      [] new_state.name = "PlatformRouting" ->
            [t EXCEPT !.validation_duration =
                          IF IsSome(t.validation_started)
                          THEN Some(now - Unwrap(t.validation_started))
                          ELSE t.validation_duration,
                      !.platform_routing_started = Some(now)]
      [] new_state.name = "Queued" -> [t EXCEPT !.queued_at = Some(now)]
      [] new_state.name = "Delivering" -> [t EXCEPT !.delivery_started = Some(now)]
      [] new_state.name = "Delivered" ->
            [t EXCEPT !.delivery_duration =
                          IF IsSome(t.delivery_started)
                          THEN Some(now - Unwrap(t.delivery_started))
                          ELSE t.delivery_duration,
                      !.delivered_at = Some(now),
                      !.total_processing_time = Some(now - t.created_at)]
      [] new_state.name = "InteractionReceived" -> [t EXCEPT !.last_interaction = Some(now)]
      [] new_state.name = "Failed" -> [t EXCEPT !.failed_at = Some(now)]
      [] new_state.name = "Expired" -> [t EXCEPT !.expired_at = Some(now)]
      [] OTHER -> t

\* A mutant of transition_to: the history is stamped before the validation.
transition_to_eager(l, new_state, reason, correlation_id, now) ==
    LET pushed == [l EXCEPT
                     !.state_history =
                        Append(@, [from_state |-> Some(l.state), to_state |-> new_state,
                                   timestamp |-> now, reason |-> reason,
                                   correlation_id |-> correlation_id])]
    IN  IF ~can_transition_to(l.state, new_state)
        THEN [ok |-> FALSE, lc |-> pushed]
        ELSE [ok |-> TRUE,
              lc |-> [pushed EXCEPT
                        !.timing = timing_on_transition(l.timing, new_state, now),
                        !.state = new_state,
                        !.performance_metrics =
                            record_state_transition(l.performance_metrics, l.state,
                                                    new_state, now)]]

\* transition_to: [ok, lc] is the Result and the object afterwards.
transition_to(l, new_state, reason, correlation_id, now) ==
    IF ~can_transition_to(l.state, new_state)
    THEN [ok |-> FALSE, lc |-> l]
    ELSE [ok |-> TRUE,
          lc |-> [l EXCEPT
                    !.timing = timing_on_transition(l.timing, new_state, now),
                    !.state = new_state,
                    !.state_history =
                        Append(@, [from_state |-> Some(l.state), to_state |-> new_state,
                                   timestamp |-> now, reason |-> reason,
                                   correlation_id |-> correlation_id]),
                    !.performance_metrics =
                        record_state_transition(l.performance_metrics, l.state,
                                                new_state, now)]]

(***************************************************************************)
(* NotificationLifecycle: timing refresh, expiry, retry.                   *)
(***************************************************************************)
\* NotificationTiming::update, reached through update_timing (its elapsed
\* argument is unused).
update_timing(l, now) ==
    LET t0 == l.timing
        t1 == IF IsSome(t0.queued_at) /\ t0.queue_duration = None
              THEN [t0 EXCEPT !.queue_duration = Some(now - Unwrap(t0.queued_at))]
              ELSE t0
        t2 == IF /\ IsSome(t1.validation_started)
                 /\ t1.validation_duration = None
                 /\ (IsSome(t1.platform_routing_started) \/ IsSome(t1.delivery_started))
              THEN [t1 EXCEPT !.validation_duration =
                                 Some(now - Unwrap(t1.validation_started))]
              ELSE t1
        t3 == IF /\ IsSome(t2.delivery_started)
                 /\ t2.delivery_duration = None
                 /\ IsSome(t2.delivered_at)
              THEN [t2 EXCEPT !.delivery_duration = Some(now - Unwrap(t2.delivery_started)),
                              !.total_processing_time = Some(now - t2.created_at)]
              ELSE t2
    IN  [l EXCEPT !.timing = t3]

is_expired(l, now) ==
    \/ IsSome(l.expiration.expires_at) /\ now >= Unwrap(l.expiration.expires_at)
    \/ IsSome(l.expiration.ttl) /\ now - l.timing.created_at >= Unwrap(l.expiration.ttl)
    \/ /\ l.state.name = "Delivering"
       /\ IsSome(l.timing.delivery_started)
       /\ now - Unwrap(l.timing.delivery_started) > l.expiration.delivery_timeout
    \/ /\ l.state.name = "InteractionPending"
       /\ IsSome(l.timing.delivered_at)
       /\ now - Unwrap(l.timing.delivered_at) > l.expiration.interaction_timeout

should_retry(l) ==
    /\ l.state.name = "Failed"
    /\ l.retry_policy.current_attempt < l.retry_policy.max_attempts
    /\ l.retry_policy.circuit_breaker_state = "Closed"

\* RetryPolicy::schedule_next_attempt (its delay argument is unused).
schedule_next_attempt(rp, now) ==
    LET r1 == [rp EXCEPT !.last_attempt = Some(now)]
        r2 == IF /\ r1.circuit_breaker_state = "Open"
                 /\ IsSome(r1.circuit_breaker_opened_at)
                 /\ now - Unwrap(r1.circuit_breaker_opened_at) >= r1.circuit_breaker_timeout
              THEN [r1 EXCEPT !.circuit_breaker_state = "HalfOpen"]
              ELSE r1
    IN  IF r2.circuit_breaker_state = "HalfOpen"
        THEN [r2 EXCEPT !.circuit_breaker_state = "Closed",
                        !.consecutive_failures = 0,
                        !.circuit_breaker_opened_at = None]
        ELSE r2

schedule_retry(l, now) == [l EXCEPT !.retry_policy = schedule_next_attempt(@, now)]

update_platform_state(l, platform, ps) == [l EXCEPT !.platform_states[platform] = ps]

\* A mutant of record_delivery_attempt: the breaker opens without a timestamp.
record_delivery_attempt_unstamped(l, success, now) ==
    LET r1 == [l.retry_policy EXCEPT !.current_attempt = @ + 1,
                                     !.last_attempt = Some(now)]
    IN  IF success
        THEN [l EXCEPT !.delivery_receipt = Some("receipt"),
                       !.retry_policy = [r1 EXCEPT !.consecutive_failures = 0]]
        ELSE LET r2 == [r1 EXCEPT !.consecutive_failures = @ + 1,
                                  !.last_error = Some("error")]
             IN  [l EXCEPT !.retry_policy =
                    IF r2.consecutive_failures >= r2.circuit_breaker_threshold
                    THEN [r2 EXCEPT !.circuit_breaker_state = "Open"]
                    ELSE r2]

\* record_delivery_attempt(Success(receipt)) when success, (Failure(error)) otherwise.
record_delivery_attempt(l, success, now) ==
    LET r1 == [l.retry_policy EXCEPT !.current_attempt = @ + 1,
                                     !.last_attempt = Some(now)]
    IN  IF success
        THEN [l EXCEPT !.delivery_receipt = Some("receipt"),
                       !.retry_policy = [r1 EXCEPT !.consecutive_failures = 0]]
        ELSE LET r2 == [r1 EXCEPT !.consecutive_failures = @ + 1,
                                  !.last_error = Some("error")]
             IN  [l EXCEPT !.retry_policy =
                    IF r2.consecutive_failures >= r2.circuit_breaker_threshold
                    THEN [r2 EXCEPT !.circuit_breaker_state = "Open",
                                    !.circuit_breaker_opened_at = Some(now)]
                    ELSE r2]

\* RetryPolicy::should_retry_circuit_breaker: [returned, rp].
should_retry_circuit_breaker(rp, now) ==
    CASE rp.circuit_breaker_state = "Closed" -> [returned |-> TRUE, rp |-> rp]
      [] rp.circuit_breaker_state = "Open" ->
            IF /\ IsSome(rp.circuit_breaker_opened_at)
               /\ now - Unwrap(rp.circuit_breaker_opened_at) >= rp.circuit_breaker_timeout
            THEN [returned |-> TRUE,
                  rp |-> [rp EXCEPT !.circuit_breaker_state = "HalfOpen"]]
            ELSE [returned |-> FALSE, rp |-> rp]
      [] rp.circuit_breaker_state = "HalfOpen" -> [returned |-> TRUE, rp |-> rp]

(***************************************************************************)
(* PlatformIntegration and AuthorizationState (components/platform.rs).    *)
(* "NoEntry" stands for a platform with no key in authorization_states.    *)
(***************************************************************************)
\* is_authorized matches on the variant only; a is the variant's name.
AuthorizationState_is_authorized(a) == a \in {"Authorized", "Provisional"}

\* An AuthorizationState value: the variant and the fields the queries read
\* (Denied.can_retry, Provisional.expires_at).
AuthorizationState(variant, can_retry, expires_at) ==
    [variant |-> variant, can_retry |-> can_retry, expires_at |-> expires_at]

can_request(a) ==
    CASE a.variant = "NotRequested" -> TRUE
      [] a.variant = "Denied" -> a.can_retry
      [] a.variant = "Revoked" -> TRUE
      [] a.variant = "Pending" -> FALSE
      [] OTHER -> FALSE

AuthorizationState_is_expired(a, now) ==
    IF a.variant = "Provisional" /\ IsSome(a.expires_at)
    THEN now > Unwrap(a.expires_at)
    ELSE FALSE

PlatformIntegration_new(target_platforms) ==
    [target_platforms |-> target_platforms,
     authorization_states |-> [p \in Platform |-> "NoEntry"]]

\* A mutant of update_authorization: the state is not recorded.
update_authorization_dropped(pi, platform, a) == pi

update_authorization(pi, platform, a) ==
    [pi EXCEPT !.authorization_states[platform] = a]

is_authorized(pi, platform) ==
    /\ pi.authorization_states[platform] # "NoEntry"
    /\ AuthorizationState_is_authorized(pi.authorization_states[platform])

(***************************************************************************)
(* PlatformBackendFactory::get_supported_backends: one backend for the     *)
(* target OS of the build, none on any other OS.  The builds explored are  *)
(* a Linux build and a build for an OS without backend; the macOS and the  *)
(* Windows build differ from the Linux build in the platform's name only.  *)
(***************************************************************************)
get_supported_backends == {{"Linux"}, {}}

(***************************************************************************)
(* The inputs callers draw from.                                           *)
(***************************************************************************)
Ids == 1..MaxIds
TargetPool == {"MacOS", "Linux"}
TargetLists == UNION {[1..n -> TargetPool] : n \in 1..MaxTargets}
TtlChoices == {None, Some(MaxTime)}
DeliveryTimeoutChoices == {MaxTime - 1}
CallerAuthInputs == {"Authorized", "Denied"}

Range(seq) == {seq[k] : k \in DOMAIN seq}

(***************************************************************************)
(* NotificationBuilder::build (the successful path) and the Notification.  *)
(* The correlation id generated for an identity is modelled by its id.     *)
(***************************************************************************)
NoNotification == [built |-> FALSE]

build(id, platforms, ttl, delivery_timeout, now) ==
    [built |-> TRUE,
     identity |-> [id |-> id, correlation_id |-> id],
     platform_integration |-> PlatformIntegration_new(platforms),
     lifecycle |-> NotificationLifecycle_new(now, ttl, delivery_timeout),
     analytics |-> [metrics_updated |-> FALSE]]

(***************************************************************************)
(* NotificationManager (lib.rs).                                           *)
(***************************************************************************)
Workers == {"lifecycle_monitor", "delivery_worker", "analytics_aggregator"}

EmptyStore == [i \in {} |-> NoNotification]

DwIdle == [pc |-> "idle", jobs |-> <<>>, i |-> 0, results |-> <<>>]

\* shutdown_with_timeout has not been called.
ShutdownResult(kind, n) == [kind |-> kind, n |-> n]

SdNotCalled ==
    [pc |-> "none", visited |-> {}, pending |-> <<>>, cancel_calls |-> <<>>,
     result |-> ShutdownResult("NoResult", 0)]

\* NotificationManager::new, but for the backends, which the build decides.
ManagerNew ==
    /\ notif = [id \in Ids |-> NoNotification]
    /\ store = EmptyStore
    /\ inserts = [id \in Ids |-> 0]
    /\ lastSend = [made |-> FALSE]
    /\ dw = DwIdle
    /\ shutdown_sent = FALSE
    /\ running = Workers
    /\ panicked = {}
    /\ sd = SdNotCalled

----------------------------------------------------------------------------
(* backends/image_utils.rs: the process-wide IMAGE_CACHE.  An Instant is a  *)
(* number of milliseconds; url and path are numbers; the k-th temp file has *)
(* path k.                                                                  *)

CACHE_TTL_SECS == 3600
MAX_CACHE_ENTRIES == 100

NoCache == [u \in {} |-> 0]

CachedImage(path, cached_at) == [path |-> path, cached_at |-> cached_at]

\* Duration::from_secs(CACHE_TTL_SECS).
cache_ttl == CACHE_TTL_SECS * 1000

\* A mutant of is_valid: an entry exactly cache_ttl old is kept.
is_valid_at_ttl(entry, now) == now - entry.cached_at <= cache_ttl

\* evict_stale_entries, the closure of retain: the entry is kept.
is_valid(entry, now) == now - entry.cached_at < cache_ttl

\* evict_stale_entries, cache.retain(..): the map that is left and the files
\* the closure unlinks.
retain_valid(cache, now) ==
    [u \in {k \in DOMAIN cache : is_valid(cache[k], now)} |-> cache[u]]

retain_unlinked(cache, now) ==
    {cache[k].path : k \in {u \in DOMAIN cache : ~is_valid(cache[u], now)}}

\* evict_stale_entries, cache.iter().min_by_key(|entry| entry.cached_at): a key
\* of least cached_at; which one, among equals, is the iteration order's.
oldest_keys(cache) ==
    {k \in DOMAIN cache : \A u \in DOMAIN cache : cache[k].cached_at <= cache[u].cached_at}

\* DashMap::remove and DashMap::insert.
cache_remove(cache, key) == [u \in DOMAIN cache \ {key} |-> cache[u]]

\* A mutant of cache_insert: nothing is stored.
cache_insert_dropped(cache, key, entry) == cache

cache_insert(cache, key, entry) ==
    [u \in DOMAIN cache \cup {key} |-> IF u = key THEN entry ELSE cache[u]]

\* What a download_image call returned.
NoReturn == [kind |-> "None", path |-> 0, via |-> "none"]
ResolvedImage(path, via) == [kind |-> "Ok", path |-> path, via |-> via]
ResourceError == [kind |-> "Err", path |-> 0, via |-> "none"]

\* A download_image call: where it stands, its url, the key its eviction pass
\* found oldest, the path of the entry of url if that entry was
\* CACHE_TTL_SECS old or older when the call began, the temp file the call
\* created, what it returned.
DownloadCall(pc, url, stale) ==
    [pc |-> pc, url |-> url, key |-> 0, stale |-> stale, path |-> 0, ret |-> NoReturn]

Callers == {"c1", "c2"}

NoDownload == DownloadCall("idle", 0, None)

\* The call has returned ret.
Returned(call, ret) ==
    [pc |-> "idle", url |-> call.url, key |-> 0, stale |-> call.stale, path |-> 0,
     ret |-> ret]

\* made: IMAGE_CACHE is initialised; disk: the temp files that exist; files:
\* how many were ever created; now: Instant::now(); begun: the calls made;
\* ticks: how often the model has let time pass.
ImageState(made, cache, disk, files, now, calls, begun) ==
    [made |-> made, cache |-> cache, disk |-> disk, files |-> files, now |-> now,
     calls |-> calls, begun |-> begun, ticks |-> 0]

NoImages == ImageState(FALSE, NoCache, {}, 0, 0, [c \in Callers |-> NoDownload], 0)

\* cleanup_all_cached_images: IMAGE_CACHE.get() is None until the first
\* download; otherwise the file of every entry is unlinked and the map cleared.
cleanup_all_cached_images(i) ==
    IF ~i.made THEN i
    ELSE [i EXCEPT !.disk = @ \ {i.cache[u].path : u \in DOMAIN i.cache},
                   !.cache = NoCache]

(***************************************************************************)
(* The async runtime and the DashMap guards.  A guard <<task, id, mode>>   *)
(* says that task holds the shard of entry id read- or write-locked while  *)
(* it awaits.  Every entry is taken to lie in a shard of its own.  A task  *)
(* that asks for a lock it cannot get parks the thread that polls it.      *)
(***************************************************************************)
Runtime(worker_threads) ==
    [worker_threads |-> worker_threads, guards |-> {}, parked |-> {}]

\* RwLock: a read lock waits for another task's write guard, a write lock for
\* any guard of another task.
CanRead(r, id, task) ==
    \A g \in r.guards : (g[2] = id /\ g[3] = "write") => g[1] = task

CanWrite(r, id, task) ==
    \A g \in r.guards : g[2] = id => g[1] = task

\* The runtime polls task: the task is not parked on a lock and a thread is
\* left that is not blocked under a parked task.
Polled(r, task) ==
    /\ task \notin r.parked
    /\ Cardinality(r.parked) < r.worker_threads

\* task reaches its next await holding exactly the guards in held.
hold(r, task, held) ==
    [r EXCEPT !.guards = {g \in @ : g[1] # task} \cup held]

\* MacOSBackend is stateless; no deliver_notification call has been made.
NoDeliveries == [made |-> FALSE]

\* No caller has touched a builder, an authorization state or a capability map;
\* nothing was downloaded; the runtime has a thread more than there are workers.
ProcessStart ==
    /\ builder = [made |-> FALSE]
    /\ auth = [made |-> FALSE]
    /\ matrix = [made |-> FALSE]
    /\ mac = NoDeliveries
    /\ img = NoImages
    /\ rt = Runtime(Cardinality(Workers) + 1)

Init ==
    /\ clock = 0
    /\ lc = NotificationLifecycle_new(0, None, 1)
    /\ lastCall = [made |-> FALSE]
    /\ accepted = 0
    /\ retryVia = "Delivering"
    /\ platform_backends \in get_supported_backends
    /\ ManagerNew
    /\ ProcessStart

store_insert(s, id, rec) ==
    [i \in DOMAIN s \cup {id} |-> IF i = id THEN rec ELSE s[i]]

\* send: [ok, record]; record is what is inserted when ok.
send(n, now) ==
    LET res == transition_to(n.lifecycle, St("Queued"), "QueuedByAttentionManager",
                             Some(n.identity.correlation_id), now)
    IN  [ok |-> res.ok,
         record |-> [identity |-> n.identity,
                     lifecycle |-> res.lc,
                     platform_integration |-> n.platform_integration,
                     analytics |-> n.analytics]]

----------------------------------------------------------------------------
(* Callers. *)

\* NotificationBuilder::new()...with_platforms(platforms).build()
Build(id, platforms, ttl, delivery_timeout) ==
    /\ ~notif[id].built
    /\ sd.pc = "none"
    /\ platforms # <<>>
    /\ notif' = [notif EXCEPT ![id] = build(id, platforms, ttl, delivery_timeout, clock)]
    /\ UNCHANGED <<fnVars, procVars,
                   clock, lcVars, sdVars, platform_backends, store, inserts, lastSend, dw,
                   shutdown_sent, running>>

\* The caller advances the lifecycle of a notification it holds
\* (Notification.lifecycle and transition_to are public).
CallerTransition(id, target, reason) ==
    /\ notif[id].built
    /\ sd.pc = "none"
    /\ inserts[id] = 0
    /\ Len(notif[id].lifecycle.state_history) < MaxPrep
    /\ notif' = [notif EXCEPT ![id].lifecycle =
                    transition_to(@, target, reason, None, clock).lc]
    /\ UNCHANGED <<fnVars, procVars,
                   clock, lcVars, sdVars, platform_backends, store, inserts, lastSend, dw,
                   shutdown_sent, running>>

\* The caller records an authorization it already holds
\* (notification.platform_integration.update_authorization).
CallerAuthorize(id, platform, a) ==
    /\ notif[id].built
    /\ sd.pc = "none"
    /\ inserts[id] = 0
    /\ platform \in Range(notif[id].platform_integration.target_platforms)
    /\ notif' = [notif EXCEPT ![id].platform_integration =
                    update_authorization(@, platform, a)]
    /\ UNCHANGED <<fnVars, procVars,
                   clock, lcVars, sdVars, platform_backends, store, inserts, lastSend, dw,
                   shutdown_sent, running>>

\* manager.send(notification.clone())
Send(id) ==
    /\ notif[id].built
    /\ inserts[id] < MaxInserts
    /\ sd.pc = "none"
    /\ LET res == send(notif[id], clock)
       IN  /\ lastSend' = [made |-> TRUE, id |-> id, ok |-> res.ok, input |-> notif[id]]
           /\ store' = IF res.ok THEN store_insert(store, id, res.record) ELSE store
           /\ inserts' = IF res.ok THEN [inserts EXCEPT ![id] = @ + 1] ELSE inserts
    /\ UNCHANGED <<fnVars, procVars,
                   clock, lcVars, sdVars, platform_backends, notif, dw, shutdown_sent, running>>

\* Time passes.
Tick ==
    /\ clock < MaxTime
    /\ clock' = clock + 1
    /\ UNCHANGED <<fnVars, procVars, lcVars, mgrVars>>

----------------------------------------------------------------------------
(* lifecycle_monitor: one entry of one tick's iter_mut(). *)

monitor_entry(rec, now) ==
    LET l1 == update_timing(rec.lifecycle, now)
        l2 == IF is_expired(l1, now)
              THEN transition_to(l1, St("Expired"), "Expiration", None, now).lc
              ELSE l1
        l3 == IF should_retry(l2) THEN schedule_retry(l2, now) ELSE l2
    IN  [rec EXCEPT !.lifecycle = l3]

MonitorVisit(id) ==
    /\ "lifecycle_monitor" \in running
    /\ Polled(rt, "lifecycle_monitor")
    /\ id \in DOMAIN store
    /\ CanWrite(rt, id, "lifecycle_monitor")
    /\ store' = [store EXCEPT ![id] = monitor_entry(@, clock)]
    /\ UNCHANGED <<fnVars, procVars,
                   clock, lcVars, sdVars, platform_backends, notif, inserts, lastSend, dw,
                   shutdown_sent, running>>

----------------------------------------------------------------------------
(* analytics_aggregator: one entry of one tick's iter_mut().  It writes the
   analytics component only. *)

analytics_entry(rec) == [rec EXCEPT !.analytics.metrics_updated = TRUE]

AnalyticsVisit(id) ==
    /\ "analytics_aggregator" \in running
    /\ Polled(rt, "analytics_aggregator")
    /\ id \in DOMAIN store
    /\ CanWrite(rt, id, "analytics_aggregator")
    /\ store' = [store EXCEPT ![id] = analytics_entry(@)]
    /\ UNCHANGED <<fnVars, procVars,
                   clock, lcVars, sdVars, platform_backends, notif, inserts, lastSend, dw,
                   shutdown_sent, running>>

----------------------------------------------------------------------------
(* delivery_worker. *)

\* The guards the worker still holds when it reaches the await that follows.
\* PHASE 1: the iterator and its guards are dropped with the collect statement.
guards_after_collect == {}

\* A mutant of guards_after_transition: the entry stays locked.
guards_after_transition_kept(job) ==
    {<<"delivery_worker", job.notification_id, "write">>}

\* PHASE 2: `entry` is dropped at the end of the if-let block.
guards_after_transition(job) == {}

\* PHASE 3: the entry of get_mut is dropped at the end of its if-let block.
guards_after_authorization(job) == {}

\* PHASE 3: the Ref of state.get() is a temporary of its statement.
guards_after_deliver(job) == {}

\* PHASE 4: `notification_state` is dropped at the end of its if-let block.
guards_after_commit(result) == {}

\* PHASE 1 for one entry: a job per target platform not yet Delivered.
collect_jobs(rec) ==
    IF rec.lifecycle.state # St("Queued") THEN <<>>
    ELSE LET pending == SelectSeq(rec.platform_integration.target_platforms,
                            LAMBDA p : rec.lifecycle.platform_states[p].status # "Delivered")
         IN  [k \in 1..Len(pending) |->
                LET authorized == is_authorized(rec.platform_integration, pending[k])
                IN  [notification_id |-> rec.identity.id,
                     platform |-> pending[k],
                     is_authorized |-> authorized,
                     request |-> IF authorized THEN Some("request") ELSE None,
                     correlation_id |-> rec.identity.correlation_id]]

\* The orders in which DashMap::iter can visit the entries.
IterOrders(s) ==
    {o \in [1..Cardinality(DOMAIN s) -> DOMAIN s] :
        \A a, b \in DOMAIN o : a # b => o[a] # o[b]}

RECURSIVE JobsInOrder(_, _)
JobsInOrder(s, order) ==
    IF order = <<>> THEN <<>>
    ELSE collect_jobs(s[Head(order)]) \o JobsInOrder(s, Tail(order))

\* The position after job or result i of a phase: the next one, or the next phase.
AfterJob(d, results) ==
    IF d.i < Len(d.jobs)
    THEN [d EXCEPT !.i = d.i + 1, !.results = results]
    ELSE IF results = <<>>
         THEN [d EXCEPT !.pc = "idle", !.i = 0, !.results = results]
         ELSE [d EXCEPT !.pc = "commit", !.i = 1, !.results = results]

\* interval.tick(): PHASE 1.  jobs and results of the previous tick stay
\* readable in dw until here.
DwCollect(order) ==
    /\ Polled(rt, "delivery_worker")
    /\ \A id \in DOMAIN store : CanRead(rt, id, "delivery_worker")
    /\ "delivery_worker" \in running
    /\ dw.pc = "idle"
    /\ LET jobs == JobsInOrder(store, order)
       IN  dw' = IF jobs = <<>> THEN DwIdle
                 ELSE [pc |-> "transition", jobs |-> jobs, i |-> 1, results |-> <<>>]
    /\ rt' = hold(rt, "delivery_worker", guards_after_collect)
    /\ UNCHANGED <<fnVars, img,
                   clock, lcVars, sdVars, platform_backends, notif, store, inserts, lastSend,
                   shutdown_sent, running>>

\* PHASE 2, one job: an authorized job moves its entry to Delivering.
DwTransition ==
    /\ Polled(rt, "delivery_worker")
    /\ (dw.pc = "transition" /\ dw.jobs[dw.i].is_authorized) =>
            CanWrite(rt, dw.jobs[dw.i].notification_id, "delivery_worker")
    /\ dw.pc = "transition"
    /\ LET job == dw.jobs[dw.i]
       IN  store' = IF job.is_authorized /\ job.notification_id \in DOMAIN store
                    THEN [store EXCEPT ![job.notification_id].lifecycle =
                            transition_to(@, St("Delivering"), "DeliveryStarted",
                                          Some(job.correlation_id), clock).lc]
                    ELSE store
    /\ dw' = IF dw.i < Len(dw.jobs) THEN [dw EXCEPT !.i = dw.i + 1]
             ELSE [dw EXCEPT !.pc = "deliver", !.i = 1]
    /\ rt' = hold(rt, "delivery_worker", guards_after_transition(dw.jobs[dw.i]))
    /\ UNCHANGED <<fnVars, img,
                   clock, lcVars, sdVars, platform_backends, notif, inserts, lastSend,
                   shutdown_sent, running>>

\* PHASE 3, an unauthorized job whose platform has a backend:
\* backend.request_authorization().await returns granted (Ok(true)) or not.
\* A granted job goes on to deliver only if it carries a request.
DwRequestAuthorization(granted) ==
    /\ Polled(rt, "delivery_worker")
    /\ (dw.pc = "deliver" /\ granted) =>
            CanWrite(rt, dw.jobs[dw.i].notification_id, "delivery_worker")
    /\ dw.pc = "deliver"
    /\ LET job == dw.jobs[dw.i]
       IN  /\ ~job.is_authorized
           /\ job.platform \in platform_backends
           /\ store' = IF granted /\ job.notification_id \in DOMAIN store
                       THEN [store EXCEPT ![job.notification_id].platform_integration =
                                update_authorization(@, job.platform, "Authorized")]
                       ELSE store
           /\ dw' = IF granted
                    THEN IF IsSome(job.request)
                         THEN [dw EXCEPT !.pc = "deliver_granted"]
                         ELSE AfterJob(dw, dw.results)
                    ELSE AfterJob(dw, Append(dw.results,
                            [kind |-> "Unauthorized",
                             notification_id |-> job.notification_id,
                             platform |-> job.platform,
                             correlation_id |-> job.correlation_id,
                             retry_count |-> 0]))
    /\ rt' = hold(rt, "delivery_worker", guards_after_authorization(dw.jobs[dw.i]))
    /\ UNCHANGED <<fnVars, img,
                   clock, lcVars, sdVars, platform_backends, notif, inserts, lastSend,
                   shutdown_sent, running>>

\* PHASE 3, a job with a request whose platform has a backend:
\* backend.deliver_notification(&request).await returns Ok(receipt) or Err.
DwDeliver(delivered) ==
    /\ Polled(rt, "delivery_worker")
    /\ (dw.pc \in {"deliver", "deliver_granted"} /\ ~delivered) =>
            CanRead(rt, dw.jobs[dw.i].notification_id, "delivery_worker")
    /\ LET job == dw.jobs[dw.i]
       IN  /\ \/ dw.pc = "deliver" /\ job.is_authorized
              \/ dw.pc = "deliver_granted"
           /\ job.platform \in platform_backends
           /\ IsSome(job.request)
           /\ LET retry_count ==
                    IF job.notification_id \in DOMAIN store
                    THEN store[job.notification_id].lifecycle.retry_policy.current_attempt
                    ELSE 0
                  result ==
                    [kind |-> IF delivered THEN "Success" ELSE "Failure",
                     notification_id |-> job.notification_id,
                     platform |-> job.platform,
                     correlation_id |-> job.correlation_id,
                     retry_count |-> IF delivered THEN 0 ELSE retry_count]
              IN  dw' = AfterJob([dw EXCEPT !.pc = "deliver"], Append(dw.results, result))
    /\ rt' = hold(rt, "delivery_worker", guards_after_deliver(dw.jobs[dw.i]))
    /\ UNCHANGED <<fnVars, img,
                   clock, lcVars, sdVars, platform_backends, notif, store, inserts, lastSend,
                   shutdown_sent, running>>

\* PHASE 3, a job whose platform has no backend: nothing is called and no
\* result is buffered.
DwNoBackend ==
    /\ Polled(rt, "delivery_worker")
    /\ dw.pc = "deliver"
    /\ dw.jobs[dw.i].platform \notin platform_backends
    /\ dw' = AfterJob(dw, dw.results)
    /\ rt' = hold(rt, "delivery_worker", {})
    /\ UNCHANGED <<fnVars, img,
                   clock, lcVars, sdVars, platform_backends, notif, store, inserts, lastSend,
                   shutdown_sent, running>>

platform_state_of(result) ==
    CASE result.kind = "Success" ->
            [status |-> "Delivered", error |-> "", attempt_count |-> 1,
             is_permanent |-> FALSE]
      [] result.kind = "Failure" ->
            [status |-> "Failed", error |-> "delivery error",
             attempt_count |-> result.retry_count + 1, is_permanent |-> FALSE]
      [] result.kind = "Unauthorized" ->
            [status |-> "Failed", error |-> "Authorization required", attempt_count |-> 1,
             is_permanent |-> TRUE]

\* PHASE 4 for one result: write the platform state, then aggregate.
commit_result(rec, result, now) ==
    LET l1 == update_platform_state(rec.lifecycle, result.platform, platform_state_of(result))
        targets == Range(rec.platform_integration.target_platforms)
        all_delivered == \A p \in targets : l1.platform_states[p].status = "Delivered"
        any_failed == \E p \in targets : l1.platform_states[p].status = "Failed"
        platform_errors == {p \in targets : l1.platform_states[p].status = "Failed"}
        l2 == IF all_delivered
              THEN transition_to(l1, St("Delivered"), "DeliveryCompleted",
                                 Some(result.correlation_id), now).lc
              ELSE IF any_failed /\ platform_errors # {}
                   THEN transition_to(l1, Failed(platform_errors), "DeliveryFailed",
                                      Some(result.correlation_id), now).lc
                   ELSE l1
    IN  [rec EXCEPT !.lifecycle = l2]

DwCommit ==
    /\ Polled(rt, "delivery_worker")
    /\ dw.pc = "commit" =>
            CanWrite(rt, dw.results[dw.i].notification_id, "delivery_worker")
    /\ dw.pc = "commit"
    /\ LET result == dw.results[dw.i]
       IN  store' = IF result.notification_id \in DOMAIN store
                    THEN [store EXCEPT ![result.notification_id] =
                            commit_result(@, result, clock)]
                    ELSE store
    /\ dw' = IF dw.i < Len(dw.results) THEN [dw EXCEPT !.i = dw.i + 1]
             ELSE [dw EXCEPT !.pc = "idle", !.i = 0]
    /\ rt' = hold(rt, "delivery_worker", guards_after_commit(dw.results[dw.i]))
    /\ UNCHANGED <<fnVars, img,
                   clock, lcVars, sdVars, platform_backends, notif, inserts, lastSend,
                   shutdown_sent, running>>

----------------------------------------------------------------------------
(* A backend call made by the delivery worker panics: the task ends and its
   join handle will report an error. *)

DwBackendPanics ==
    /\ dw.pc = "deliver"
    /\ dw.jobs[dw.i].platform \in platform_backends
    /\ dw' = [dw EXCEPT !.pc = "panicked"]
    /\ running' = running \ {"delivery_worker"}
    /\ panicked' = panicked \cup {"delivery_worker"}
    /\ UNCHANGED <<fnVars, procVars,
                   clock, lcVars, platform_backends, notif, store, inserts, lastSend,
                   shutdown_sent, sd>>

----------------------------------------------------------------------------
(* shutdown_with_timeout.  It consumes the manager: no send follows it. *)

\* PHASE 1: the metrics are read and logged.
ShutdownBegin ==
    /\ sd.pc = "none"
    /\ sd' = [sd EXCEPT !.pc = "cancel"]
    /\ UNCHANGED <<fnVars, procVars,
                   clock, lcVars, platform_backends, notif, store, inserts, lastSend, dw,
                   shutdown_sent, running, panicked>>

\* The backend.cancel_notification calls PHASE 2 makes for one entry: for a
\* Delivering record, one per element of target_platforms that has a backend.
cancel_calls_for(rec) ==
    IF rec.lifecycle.state = St("Delivering")
    THEN LET ps == SelectSeq(rec.platform_integration.target_platforms,
                             LAMBDA p : p \in platform_backends)
         IN  [k \in 1..Len(ps) |-> [notification_id |-> rec.identity.id, platform |-> ps[k]]]
    ELSE <<>>

\* PHASE 2, one entry of state.iter(): the entry stays read-locked over its calls.
ShutdownCancelVisit(id) ==
    /\ sd.pc = "cancel"
    /\ id \in DOMAIN store \ sd.visited
    /\ sd' = [sd EXCEPT !.visited = @ \cup {id},
                        !.cancel_calls = @ \o cancel_calls_for(store[id])]
    /\ UNCHANGED <<fnVars, procVars,
                   clock, lcVars, platform_backends, notif, store, inserts, lastSend, dw,
                   shutdown_sent, running, panicked>>

\* PHASE 3: shutdown_tx.send(()).
ShutdownSignal ==
    /\ Polled(rt, "shutdown")
    /\ ~shutdown_sent
    /\ sd.pc = "cancel"
    /\ sd.visited = DOMAIN store
    /\ shutdown_sent' = TRUE
    /\ sd' = [sd EXCEPT !.pc = "join"]
    /\ UNCHANGED <<fnVars, procVars,
                   clock, lcVars, platform_backends, notif, store, inserts, lastSend, dw,
                   running, panicked>>

\* A worker's select! takes the shutdown branch and the task returns.
WorkerExit(w) ==
    /\ shutdown_sent
    /\ w \in running
    /\ Polled(rt, w)
    /\ w = "delivery_worker" => dw.pc = "idle"
    /\ running' = running \ {w}
    /\ UNCHANGED <<fnVars, procVars,
                   clock, lcVars, sdVars, platform_backends, notif, store, inserts, lastSend,
                   dw, shutdown_sent>>

\* A mutant of join_result: a join error is not counted.
join_result_forgiving(errors) == ShutdownResult("Clean", 0)

\* PHASE 4, the match on the joined results: errors is the number of Err.
join_result(errors) ==
    IF errors = 0 THEN ShutdownResult("Clean", 0)
    ELSE ShutdownResult("WorkersPanicked", errors)

\* PHASE 4: all three handles were awaited inside the window; PHASE 6.
ShutdownJoined ==
    /\ Polled(rt, "shutdown")
    /\ sd.pc = "join"
    /\ running = {}
    /\ sd' = [sd EXCEPT !.pc = "done", !.result = join_result(Cardinality(panicked))]
    /\ img' = cleanup_all_cached_images(img)
    /\ UNCHANGED <<fnVars, rt,
                   clock, lcVars, platform_backends, notif, store, inserts, lastSend, dw,
                   shutdown_sent, running, panicked>>

\* PHASE 4: the window elapsed while a handle was still pending; PHASE 6.
ShutdownTimedOut ==
    /\ Polled(rt, "shutdown")
    /\ sd.pc = "join"
    /\ running # {}
    /\ sd' = [sd EXCEPT !.pc = "done", !.result = ShutdownResult("TimedOut", 0)]
    /\ img' = cleanup_all_cached_images(img)
    /\ UNCHANGED <<fnVars, rt,
                   clock, lcVars, platform_backends, notif, store, inserts, lastSend, dw,
                   shutdown_sent, running, panicked>>

\* Spec follows the store up to the workers leaving their loops; the caller
\* records a granted authorization or none.  SpecLive and SpecFair add a
\* refused one, SpecShutdown a panicking worker and the value shutdown returns.
Next ==
    \/ \E id \in Ids, platforms \in TargetLists, ttl \in TtlChoices,
          delivery_timeout \in DeliveryTimeoutChoices :
            Build(id, platforms, ttl, delivery_timeout)
    \/ \E id \in Ids, target \in CallTargets, reason \in CallReasons :
            CallerTransition(id, target, reason)
    \/ \E id \in Ids, platform \in TargetPool : CallerAuthorize(id, platform, "Authorized")
    \/ \E id \in Ids : Send(id)
    \/ Tick
    \/ \E id \in Ids : MonitorVisit(id)
    \/ \E id \in Ids : AnalyticsVisit(id)
    \/ \E order \in IterOrders(store) : DwCollect(order)
    \/ DwTransition
    \/ \E granted \in BOOLEAN : DwRequestAuthorization(granted)
    \/ \E delivered \in BOOLEAN : DwDeliver(delivered)
    \/ DwNoBackend
    \/ DwCommit
    \/ ShutdownBegin
    \/ \E id \in Ids : ShutdownCancelVisit(id)
    \/ ShutdownSignal
    \/ \E w \in Workers : WorkerExit(w)

Spec == Init /\ [][Next]_vars

(***************************************************************************)
(* SpecLifecycle: one NotificationLifecycle object and a caller that makes *)
(* arbitrary transition_to calls on it while time passes.                  *)
(***************************************************************************)
InitLifecycle ==
    /\ clock = 0
    /\ lc = NotificationLifecycle_new(0, None, 1)
    /\ lastCall = NoCall
    /\ accepted = 0
    /\ retryVia = "Delivering"
    /\ platform_backends = {}
    /\ ManagerNew
    /\ ProcessStart

\* A caller invokes lc.transition_to(target, reason, None).
LcCall(target, reason) ==
    /\ Len(lc.state_history) <= MaxCalls
    /\ LET res == transition_to(lc, target, reason, None, clock)
       IN  /\ lc' = res.lc
           /\ lastCall' = [made |-> TRUE, target |-> target, ok |-> res.ok, before |-> lc]
           /\ accepted' = IF res.ok THEN accepted + 1 ELSE accepted
    /\ UNCHANGED <<fnVars, procVars, clock, retryVia>>
    /\ UNCHANGED <<mgrVars, fnVars, procVars>>

\* Time passes between calls.
LcTick ==
    /\ clock < LcMaxTime
    /\ clock' = clock + 1
    /\ UNCHANGED <<fnVars, procVars, lc, lastCall, accepted, retryVia>>
    /\ UNCHANGED <<mgrVars, fnVars, procVars>>

NextLifecycle ==
    \/ \E target \in CallTargets, reason \in CallReasons : LcCall(target, reason)
    \/ LcTick

SpecLifecycle == InitLifecycle /\ [][NextLifecycle]_vars

(***************************************************************************)
(* SpecRetryLoop: a caller that keeps retrying a failing notification,     *)
(* Failed -> retryVia -> Failed, through transition_to.                    *)
(***************************************************************************)
InitRetryLoop ==
    /\ clock = 0
    /\ lc = NotificationLifecycle_new(0, None, 1)
    /\ lastCall = NoCall
    /\ accepted = 0
    /\ retryVia \in {"Validating", "Delivering"}
    /\ platform_backends = {}
    /\ ManagerNew
    /\ ProcessStart

LoopCall(target, reason) ==
    /\ Len(lc.state_history) < MaxLoopHistory
    /\ LET res == transition_to(lc, target, reason, None, clock)
       IN  /\ lc' = res.lc
           /\ lastCall' = [made |-> TRUE, target |-> target, ok |-> res.ok, before |-> lc]
           /\ accepted' = IF res.ok THEN accepted + 1 ELSE accepted
    /\ UNCHANGED <<fnVars, procVars, clock, retryVia>>
    /\ UNCHANGED <<mgrVars, fnVars, procVars>>

LoopStart == lc.state.name = "Created" /\ LoopCall(St("Validating"), "Initial")

LoopFail ==
    /\ lc.state.name \in {"Validating", "Delivering"}
    /\ LoopCall(Failed({}), "DeliveryFailed")

LoopRetry == lc.state.name = "Failed" /\ LoopCall(St(retryVia), "Retry")

NextRetryLoop == LoopStart \/ LoopFail \/ LoopRetry

SpecRetryLoop == InitRetryLoop /\ [][NextRetryLoop]_vars

(***************************************************************************)
(* The transition table as the specification prints it (section 4.5).      *)
(***************************************************************************)
(***************************************************************************)
(* SpecRetryPolicy: one NotificationLifecycle object whose caller records  *)
(* delivery attempts, schedules retries, asks the circuit breaker and asks *)
(* should_retry.  RetryPolicy's fields are public: the caller configures   *)
(* the breaker's threshold and timeout.                                    *)
(***************************************************************************)
ThresholdChoices == {1, DEFAULT_BREAKER_THRESHOLD}
BreakerTimeoutChoices == {1, DEFAULT_BREAKER_TIMEOUT}

InitRetryPolicy ==
    /\ clock = 0
    /\ \E th \in ThresholdChoices, to \in BreakerTimeoutChoices :
          lc = [NotificationLifecycle_new(0, None, 1) EXCEPT
                  !.retry_policy.circuit_breaker_threshold = th,
                  !.retry_policy.circuit_breaker_timeout = to]
    /\ lastCall = NoCall
    /\ accepted = 0
    /\ retryVia = "Delivering"
    /\ platform_backends = {}
    /\ ManagerNew
    /\ ProcessStart

\* lc.record_delivery_attempt(result)
RpRecord(success) ==
    /\ lc.retry_policy.current_attempt < RpMaxAttempts
    /\ lc' = record_delivery_attempt(lc, success, clock)
    /\ lastCall' = [made |-> TRUE, op |-> "record_delivery_attempt",
                    success |-> success, before |-> lc, returned |-> TRUE]
    /\ UNCHANGED <<fnVars, procVars, clock, accepted, retryVia, mgrVars>>

\* lc.schedule_retry(delay)
RpScheduleRetry ==
    /\ lc' = schedule_retry(lc, clock)
    /\ lastCall' = [made |-> TRUE, op |-> "schedule_retry",
                    success |-> TRUE, before |-> lc, returned |-> TRUE]
    /\ UNCHANGED <<fnVars, procVars, clock, accepted, retryVia, mgrVars>>

\* lc.retry_policy.should_retry_circuit_breaker()
RpBreakerCheck ==
    /\ LET res == should_retry_circuit_breaker(lc.retry_policy, clock)
       IN  /\ lc' = [lc EXCEPT !.retry_policy = res.rp]
           /\ lastCall' = [made |-> TRUE, op |-> "should_retry_circuit_breaker",
                           success |-> TRUE, before |-> lc, returned |-> res.returned]
    /\ UNCHANGED <<fnVars, procVars, clock, accepted, retryVia, mgrVars>>

\* lc.should_retry()
RpShouldRetry ==
    /\ lastCall' = [made |-> TRUE, op |-> "should_retry",
                    success |-> TRUE, before |-> lc, returned |-> should_retry(lc)]
    /\ UNCHANGED <<fnVars, procVars, clock, lc, accepted, retryVia, mgrVars>>

\* lc.transition_to(target, reason, None)
RpTransition(target, reason) ==
    /\ Len(lc.state_history) < RpMaxHistory
    /\ LET res == transition_to(lc, target, reason, None, clock)
       IN  /\ lc' = res.lc
           /\ lastCall' = [made |-> TRUE, op |-> "transition_to",
                           success |-> res.ok, before |-> lc, returned |-> res.ok]
    /\ UNCHANGED <<fnVars, procVars, clock, accepted, retryVia, mgrVars>>

NextRetryPolicy ==
    \/ \E success \in BOOLEAN : RpRecord(success)
    \/ RpScheduleRetry
    \/ RpBreakerCheck
    \/ RpShouldRetry
    \/ \E target \in CallTargets, reason \in CallReasons : RpTransition(target, reason)
    \/ LcTick

SpecRetryPolicy == InitRetryPolicy /\ [][NextRetryPolicy]_vars

TransitionTable ==
    ({"Created"} \X {"Validating", "Cancelled"})
    \cup ({"Validating"} \X {"PlatformRouting", "Failed", "Cancelled"})
    \cup ({"PlatformRouting"} \X {"Queued", "Delivering", "Failed", "Cancelled"})
    \cup ({"Queued"} \X {"Delivering", "Expired", "Cancelled"})
    \cup ({"Delivering"} \X {"Delivered", "Failed", "Expired", "Cancelled"})
    \cup ({"Delivered"} \X {"InteractionPending", "InteractionReceived", "Updated",
                            "Expired", "Completed"})
    \cup ({"InteractionPending"} \X {"InteractionReceived", "ProcessingResponse", "Expired"})
    \cup ({"InteractionReceived"} \X {"ProcessingResponse", "Completed"})
    \cup ({"ProcessingResponse"} \X {"InteractionPending", "Completed", "Failed"})
    \cup ({"Updated"} \X {"Delivering", "InteractionPending", "Completed"})
    \cup ({"Failed"} \X {"Validating", "PlatformRouting", "Delivering", "Cancelled"})

IsPrefix(a, b) == Len(a) <= Len(b) /\ SubSeq(b, 1, Len(a)) = a

(***************************************************************************)
(* C2: transition_to(t) in state s returns Ok and sets state = t exactly   *)
(* when (s, t) is in the transition table; every other call returns an     *)
(* error and leaves state, state_history, timing and the transition        *)
(* counter as they were.                                                   *)
(***************************************************************************)
C2_TableDecidesTransition ==
    lastCall.made =>
        LET b == lastCall.before
            t == lastCall.target
        IN  /\ lastCall.ok <=> (<<b.state.name, t.name>> \in TransitionTable)
            /\ lastCall.ok => lc.state = t
            /\ ~lastCall.ok =>
                  /\ lc.state = b.state
                  /\ lc.state_history = b.state_history
                  /\ lc.timing = b.timing
                  /\ lc.performance_metrics.total_state_transitions =
                        b.performance_metrics.total_state_transitions

\* A rejected call made late in a life (ProcessingResponse -> Delivered) at a
\* later instant than the object's creation.
C2_Witness ==
    /\ lastCall.made /\ ~lastCall.ok
    /\ lastCall.before.state.name = "ProcessingResponse"
    /\ lastCall.target.name = "Delivered"
    /\ clock > lc.timing.created_at

(***************************************************************************)
(* C4: state_history never holds more than 100 entries, also through       *)
(* unbounded Failed -> Validating/Delivering -> Failed retry loops.         *)
(***************************************************************************)
C4_HistoryAtMost100 == Len(lc.state_history) <= 100

(***************************************************************************)
(* C5: after any sequence of transition_to calls the first history entry   *)
(* is (None, Created); a call never modifies or removes earlier entries;   *)
(* every later entry starts where the previous one ended and is a pair of  *)
(* the table; the last entry ends in the current state; and the counter    *)
(* total_state_transitions equals the number of accepted calls.            *)
(***************************************************************************)
C5_HistoryChain ==
    LET h == lc.state_history
    IN  /\ Len(h) >= 1
        /\ h[1].from_state = None /\ h[1].to_state = St("Created")
        /\ \A i \in 2..Len(h) :
              /\ h[i].from_state = Some(h[i - 1].to_state)
              /\ <<h[i - 1].to_state.name, h[i].to_state.name>> \in TransitionTable
        /\ h[Len(h)].to_state = lc.state
        /\ lc.performance_metrics.total_state_transitions = accepted
        /\ Len(h) = accepted + 1
        /\ lastCall.made => IsPrefix(lastCall.before.state_history, h)

\* Three accepted transitions followed by a rejected call.
C5_Witness ==
    /\ accepted >= 3
    /\ lastCall.made /\ ~lastCall.ok
    /\ Len(lc.state_history) = 4

(***************************************************************************)
(* SpecLive: the manager with a backend that grants every authorization    *)
(* request and delivers every request, no shutdown, and a delivery worker  *)
(* that keeps being polled (its interval fires every 50 ms).               *)
(***************************************************************************)
DwStep ==
    \/ \E order \in IterOrders(store) : DwCollect(order)
    \/ DwTransition
    \/ DwRequestAuthorization(TRUE)
    \/ DwDeliver(TRUE)
    \/ DwNoBackend
    \/ DwCommit

NextLive ==
    \/ \E id \in Ids, platforms \in TargetLists, ttl \in TtlChoices,
          delivery_timeout \in DeliveryTimeoutChoices :
            Build(id, platforms, ttl, delivery_timeout)
    \/ \E id \in Ids, target \in CallTargets, reason \in CallReasons :
            CallerTransition(id, target, reason)
    \/ \E id \in Ids, platform \in TargetPool, a \in CallerAuthInputs :
            CallerAuthorize(id, platform, a)
    \/ \E id \in Ids : Send(id)
    \/ Tick
    \/ \E id \in Ids : MonitorVisit(id)
    \/ DwStep

SpecLive == Init /\ [][NextLive]_vars /\ WF_vars(DwStep)

(***************************************************************************)
(* SpecFair: the manager with any backend outcome, no shutdown, and the    *)
(* delivery worker and the lifecycle monitor polled again and again (their *)
(* intervals fire every 50 ms and every 100 ms).                           *)
(***************************************************************************)
DwAnyStep ==
    \/ \E order \in IterOrders(store) : DwCollect(order)
    \/ DwTransition
    \/ \E granted \in BOOLEAN : DwRequestAuthorization(granted)
    \/ \E delivered \in BOOLEAN : DwDeliver(delivered)
    \/ DwNoBackend
    \/ DwCommit

MonitorStep == \E id \in Ids : MonitorVisit(id)

NextFair ==
    \/ \E id \in Ids, platforms \in TargetLists, ttl \in TtlChoices,
          delivery_timeout \in DeliveryTimeoutChoices :
            Build(id, platforms, ttl, delivery_timeout)
    \/ \E id \in Ids, target \in CallTargets, reason \in CallReasons :
            CallerTransition(id, target, reason)
    \/ \E id \in Ids, platform \in TargetPool, a \in CallerAuthInputs :
            CallerAuthorize(id, platform, a)
    \/ \E id \in Ids : Send(id)
    \/ Tick
    \/ MonitorStep
    \/ DwAnyStep

SpecFair == Init /\ [][NextFair]_vars /\ WF_vars(DwAnyStep) /\ WF_vars(MonitorStep)

(***************************************************************************)
(* SpecShutdown: the manager seen from its shutdown_with_timeout call: the *)
(* cancel phase, the broadcast, the workers leaving, a worker that         *)
(* panicked, and the value returned.  Notifications have no ttl and carry  *)
(* the authorization the caller recorded.                                  *)
(***************************************************************************)
NextShutdown ==
    \/ \E id \in Ids, platforms \in TargetLists,
          delivery_timeout \in DeliveryTimeoutChoices :
            Build(id, platforms, None, delivery_timeout)
    \/ \E id \in Ids, target \in {St("Validating"), St("PlatformRouting")},
          reason \in CallReasons :
            CallerTransition(id, target, reason)
    \/ \E id \in Ids, platform \in TargetPool : CallerAuthorize(id, platform, "Authorized")
    \/ \E id \in Ids : Send(id)
    \/ Tick
    \/ MonitorStep
    \/ DwAnyStep
    \/ DwBackendPanics
    \/ ShutdownBegin
    \/ \E id \in Ids : ShutdownCancelVisit(id)
    \/ ShutdownSignal
    \/ \E w \in Workers : WorkerExit(w)
    \/ ShutdownJoined
    \/ ShutdownTimedOut

SpecShutdown == Init /\ [][NextShutdown]_vars

----------------------------------------------------------------------------
(* Properties of the manager. *)

TargetsOf(id) == Range(store[id].platform_integration.target_platforms)
StatusOf(id, p) == store[id].lifecycle.platform_states[p].status

\* C1: send(n) with n as build() returns it (lifecycle Created) returns Ok,
\* inserts the record under n.identity.id and leaves it Queued, reached through
\* Created -> Validating -> PlatformRouting -> Queued, the last transition
\* recorded with reason QueuedByAttentionManager.
C1_SendQueuesBuiltNotification ==
    (lastSend.made /\ lastSend.input.lifecycle.state = St("Created")) =>
        /\ lastSend.ok
        /\ lastSend.id \in DOMAIN store
        /\ LET h == store[lastSend.id].lifecycle.state_history
           IN  /\ Len(h) >= 4
               /\ h[2].to_state = St("Validating")
               /\ h[3].to_state = St("PlatformRouting")
               /\ h[4].to_state = St("Queued")
               /\ h[4].reason = "QueuedByAttentionManager"

\* C3: Cancelled, Expired and Completed are absorbing: no transition_to call
\* on a notification, and no step of the lifecycle monitor, the delivery worker
\* (the commit of results in flight included) or the analytics aggregator
\* changes the lifecycle state of a record that is in one of them.
C3_TerminalIsAbsorbing ==
    [][ /\ \A id \in DOMAIN store :
            (is_terminal(store[id].lifecycle.state) /\ inserts' = inserts) =>
                /\ id \in DOMAIN store'
                /\ store'[id].lifecycle.state = store[id].lifecycle.state
        /\ \A id \in Ids :
            (notif[id].built /\ is_terminal(notif[id].lifecycle.state)) =>
                notif'[id].lifecycle.state = notif[id].lifecycle.state ]_vars

\* A result that was in flight when the monitor expired its record has been
\* committed: the platform state is written, the lifecycle state is still Expired.
C3_Witness ==
    \E id \in DOMAIN store :
        /\ store[id].lifecycle.state = St("Expired")
        /\ dw.pc = "idle"
        /\ \E k \in DOMAIN dw.results :
              /\ dw.results[k].notification_id = id
              /\ dw.results[k].kind = "Success"
              /\ StatusOf(id, dw.results[k].platform) = "Delivered"

\* C6: a stored record whose lifecycle state is Delivered has platform state
\* Delivered for every one of its target platforms.
C6_DeliveredMeansAllDelivered ==
    \A id \in DOMAIN store :
        store[id].lifecycle.state = St("Delivered") =>
            \A p \in TargetsOf(id) : StatusOf(id, p) = "Delivered"

\* C7: a stored record whose lifecycle state is Failed has at least one target
\* platform whose platform state is Failed.
C7_FailedMeansSomeFailed ==
    \A id \in DOMAIN store :
        store[id].lifecycle.state.name = "Failed" =>
            \E p \in TargetsOf(id) : StatusOf(id, p) = "Failed"

\* C8: once the platform state of (id, p) is Delivered, no step overwrites it
\* for as long as the record is the one that was sent.
C8_DeliveredIsNotOverwritten ==
    [][ \A id \in DOMAIN store : \A p \in Platform :
            (StatusOf(id, p) = "Delivered" /\ inserts' = inserts) =>
                /\ id \in DOMAIN store'
                /\ store'[id].lifecycle.platform_states[p].status = "Delivered" ]_vars

\* C9: with the delivery worker scheduled fairly, a Queued record all of whose
\* target platforms have a backend (one that grants authorization and delivers)
\* is eventually Delivered with every target platform Delivered, unless it
\* expires first.
C9_QueuedIsEventuallyDelivered ==
    \A id \in Ids :
        (/\ id \in DOMAIN store
         /\ store[id].lifecycle.state = St("Queued")
         /\ TargetsOf(id) \subseteq platform_backends)
        ~> (/\ id \in DOMAIN store
            /\ \/ /\ store[id].lifecycle.state = St("Delivered")
                  /\ \A p \in TargetsOf(id) : StatusOf(id, p) = "Delivered"
               \/ store[id].lifecycle.state = St("Expired"))

\* A record queued with a platform that was not authorized has been delivered.
C9_Witness ==
    /\ lastSend.made
    /\ lastSend.ok
    /\ lastSend.id \in DOMAIN store
    /\ store[lastSend.id].lifecycle.state = St("Delivered")
    /\ \A p \in TargetsOf(lastSend.id) :
          /\ ~is_authorized(lastSend.input.platform_integration, p)
          /\ StatusOf(lastSend.id, p) = "Delivered"

\* The platforms of the results of kind k that the tick just committed holds for id.
ResultPlatforms(id, k) ==
    {dw.results[j].platform : j \in {j \in DOMAIN dw.results :
        dw.results[j].notification_id = id /\ dw.results[j].kind = k}}

C11_DenialFailsTheRecord ==
    \A id \in DOMAIN store : \A k \in DOMAIN dw.results :
        (/\ dw.pc = "idle"
         /\ dw.results[k].notification_id = id
         /\ dw.results[k].kind = "Unauthorized"
         /\ ~is_terminal(store[id].lifecycle.state)) =>
            LET p == dw.results[k].platform
                ps == store[id].lifecycle.platform_states[p]
            IN  /\ ps.status = "Failed"
                /\ ps.error = "Authorization required"
                /\ ps.is_permanent
                /\ store[id].lifecycle.state.name = "Failed"
                /\ p \in store[id].lifecycle.state.platform_errors

\* C12: after the tick that processed a job for a target platform p without a
\* backend, platform_states[p] is Failed.
C12_MissingBackendIsFailure ==
    \A id \in DOMAIN store : \A k \in DOMAIN dw.jobs :
        (/\ dw.pc = "idle"
         /\ dw.jobs[k].notification_id = id
         /\ dw.jobs[k].platform \notin platform_backends
         /\ ~is_terminal(store[id].lifecycle.state)) =>
            StatusOf(id, dw.jobs[k].platform) = "Failed"

\* backend.deliver_notification is being invoked for (id, p).
DeliverInvoked(id, p) ==
    /\ dw.pc = "deliver"
    /\ dw.jobs[dw.i].notification_id = id
    /\ dw.jobs[dw.i].platform = p
    /\ IsSome(dw.jobs[dw.i].request)
    /\ p \in platform_backends

\* C13: with the workers scheduled fairly, a Failed record for which
\* should_retry() holds and whose retry the monitor has scheduled is delivered
\* again: deliver is eventually invoked for each of its target platforms that
\* has a backend and is not Delivered (or the record ends in a terminal state).
C13_FailedIsReattempted ==
    \A id \in Ids : \A p \in TargetPool :
        (/\ id \in DOMAIN store
         /\ should_retry(store[id].lifecycle)
         /\ IsSome(store[id].lifecycle.retry_policy.last_attempt)
         /\ p \in TargetsOf(id)
         /\ p \in platform_backends
         /\ StatusOf(id, p) # "Delivered")
        ~> (\/ DeliverInvoked(id, p)
            \/ id \in DOMAIN store /\ is_terminal(store[id].lifecycle.state))

\* C18: a lifecycle-monitor visit of a record that is expired and not terminal
\* leaves it Expired, the transition recorded with reason Expiration.
C18_ExpiredRecordIsExpiredByMonitor ==
    [][ \A id \in Ids :
            (/\ MonitorVisit(id)
             /\ ~is_terminal(store[id].lifecycle.state)
             /\ is_expired(update_timing(store[id].lifecycle, clock), clock)) =>
                LET h == store'[id].lifecycle.state_history
                IN  /\ store'[id].lifecycle.state = St("Expired")
                    /\ h[Len(h)].to_state = St("Expired")
                    /\ h[Len(h)].reason = "Expiration" ]_vars

CancelCount(calls, id, p) ==
    Cardinality({k \in DOMAIN calls :
        calls[k] = [notification_id |-> id, platform |-> p]})

\* C20: the cancel phase calls backend.cancel exactly once for every target
\* platform (with a backend) of a record it finds Delivering, calls it for no
\* other record, and no call is made once the shutdown signal is sent.
C20_CancelOncePerDeliveringPair ==
    [][ /\ \A id \in Ids :
            ShutdownCancelVisit(id) =>
                LET made == SubSeq(sd'.cancel_calls, Len(sd.cancel_calls) + 1,
                                   Len(sd'.cancel_calls))
                IN  \A p \in Platform :
                        CancelCount(made, id, p) =
                            IF /\ store[id].lifecycle.state = St("Delivering")
                               /\ p \in TargetsOf(id)
                               /\ p \in platform_backends
                            THEN 1 ELSE 0
        /\ shutdown_sent => sd'.cancel_calls = sd.cancel_calls ]_vars

----------------------------------------------------------------------------
(* Properties of the retry policy. *)

\* C14: after any sequence of record_delivery_attempt, schedule_retry and
\* transition_to calls, retry_policy.current_attempt <= retry_policy.max_attempts.
C14_AttemptsWithinMax ==
    lc.retry_policy.current_attempt <= lc.retry_policy.max_attempts

\* C15: should_retry() returns true exactly when the state is Failed,
\* current_attempt < max_attempts and the breaker is Closed or HalfOpen (a state
\* it enters only after its timeout).
C15_ShouldRetryIffRetryable ==
    (lastCall.made /\ lastCall.op = "should_retry") =>
        LET b == lastCall.before
        IN  lastCall.returned <=>
                /\ b.state.name = "Failed"
                /\ b.retry_policy.current_attempt < b.retry_policy.max_attempts
                /\ b.retry_policy.circuit_breaker_state \in {"Closed", "HalfOpen"}

\* C16: after record_delivery_attempt(Failure), consecutive_failures >= threshold
\* implies the breaker is Open; and whenever the breaker is Open,
\* circuit_breaker_opened_at is set.
C16_OpenBreakerIsStamped ==
    /\ (lastCall.made /\ lastCall.op = "record_delivery_attempt" /\ ~lastCall.success) =>
            (lc.retry_policy.consecutive_failures >= lc.retry_policy.circuit_breaker_threshold
                => lc.retry_policy.circuit_breaker_state = "Open")
    /\ lc.retry_policy.circuit_breaker_state = "Open" =>
            IsSome(lc.retry_policy.circuit_breaker_opened_at)

\* The default threshold is reached: the fifth failure in a row opens the breaker.
C16_Witness ==
    /\ lastCall.made
    /\ lastCall.op = "record_delivery_attempt"
    /\ ~lastCall.success
    /\ lc.retry_policy.circuit_breaker_threshold = DEFAULT_BREAKER_THRESHOLD
    /\ lc.retry_policy.consecutive_failures = DEFAULT_BREAKER_THRESHOLD
    /\ lastCall.before.retry_policy.circuit_breaker_state = "Closed"
    /\ lc.retry_policy.circuit_breaker_state = "Open"
    /\ lc.retry_policy.circuit_breaker_opened_at = Some(clock)

\* C17: record_delivery_attempt(Success) while the breaker is Open or HalfOpen
\* leaves it Closed with consecutive_failures = 0.
C17_SuccessClosesBreaker ==
    (/\ lastCall.made
     /\ lastCall.op = "record_delivery_attempt"
     /\ lastCall.success
     /\ lastCall.before.retry_policy.circuit_breaker_state \in {"Open", "HalfOpen"}) =>
        /\ lc.retry_policy.circuit_breaker_state = "Closed"
        /\ lc.retry_policy.consecutive_failures = 0


(***************************************************************************)
(* SpecAuthorization: one AuthorizationState value that a caller replaces  *)
(* and queries while time passes.                                          *)
(***************************************************************************)
AuthorizationStates ==
    {AuthorizationState(v, FALSE, None) :
        v \in {"NotRequested", "Requesting", "Pending", "Authorized", "Revoked"}}
    \cup {AuthorizationState("Denied", b, None) : b \in BOOLEAN}
    \cup {AuthorizationState("Provisional", FALSE, e) :
            e \in {None} \cup {Some(t) : t \in 0..MaxTime}}

InitAuthorization ==
    /\ clock = 0
    /\ lc = NotificationLifecycle_new(0, None, 1)
    /\ lastCall = NoCall
    /\ accepted = 0
    /\ retryVia = "Delivering"
    /\ platform_backends = {}
    /\ ManagerNew
    /\ builder = [made |-> FALSE]
    /\ auth \in {[state |-> a, queried |-> FALSE] : a \in AuthorizationStates}
    /\ matrix = [made |-> FALSE]
    /\ mac = NoDeliveries
    /\ img = NoImages
    /\ rt = [made |-> FALSE]

\* The caller stores another state (PlatformIntegration::update_authorization).
AuthSet(a) ==
    /\ auth.state # a
    /\ auth' = [auth EXCEPT !.state = a]
    /\ UNCHANGED <<clock, lcVars, mgrVars, builder, matrix, procVars, mac>>

\* The caller calls is_authorized(), can_request() and is_expired() on the state.
AuthQuery ==
    /\ auth' = [state |-> auth.state,
                queried |-> TRUE,
                of |-> auth.state,
                at |-> clock,
                is_authorized |-> AuthorizationState_is_authorized(auth.state.variant),
                can_request |-> can_request(auth.state),
                is_expired |-> AuthorizationState_is_expired(auth.state, clock)]
    /\ UNCHANGED <<clock, lcVars, mgrVars, builder, matrix, procVars, mac>>

NextAuthorization ==
    \/ \E a \in AuthorizationStates : AuthSet(a)
    \/ AuthQuery
    \/ Tick

SpecAuthorization == InitAuthorization /\ [][NextAuthorization]_vars

\* C28: is_authorized() is true exactly for Authorized and for a Provisional
\* that has not expired (no expires_at, or expires_at not yet passed);
\* can_request() is true exactly for NotRequested, Denied{can_retry = true}
\* and Revoked.
C28_AuthorizationQueries ==
    auth.queried =>
        /\ auth.is_authorized <=>
                \/ auth.of.variant = "Authorized"
                \/ /\ auth.of.variant = "Provisional"
                   /\ \/ auth.of.expires_at = None
                      \/ ~(auth.at > Unwrap(auth.of.expires_at))
        /\ auth.can_request <=>
                \/ auth.of.variant \in {"NotRequested", "Revoked"}
                \/ auth.of.variant = "Denied" /\ auth.of.can_retry

(***************************************************************************)
(* PlatformCapabilities::supports_feature and FeatureMatrix               *)
(* (components/platform.rs).  A PlatformCapabilities value is the set of   *)
(* its supports_* flags that are true, named as supports_feature names     *)
(* them, and its platform_features map.  best_platform_per_feature, which  *)
(* is_supported does not read, is left out.                                *)
(***************************************************************************)
all_features ==
    {"actions", "rich_media", "markup", "sound", "scheduling", "progress",
     "categories", "replies", "custom_ui", "background_activation",
     "update_content", "persistent", "priority", "grouping", "badges", "vibration"}

PlatformCapabilities(flags, platform_features) ==
    [flags |-> flags, platform_features |-> platform_features]

supports_feature(caps, feature) ==
    IF feature \in all_features THEN feature \in caps.flags
    ELSE IF feature \in DOMAIN caps.platform_features
         THEN caps.platform_features[feature]
         ELSE FALSE

from_capabilities(capabilities) ==
    LET supported_platforms(f) ==
            {p \in DOMAIN capabilities : supports_feature(capabilities[p], f)}
        universal == {f \in all_features :
                        Cardinality(supported_platforms(f)) = Cardinality(DOMAIN capabilities)}
        partial == {f \in all_features \ universal : supported_platforms(f) # {}}
    IN  [platform_features |->
            [p \in DOMAIN capabilities |->
                {f \in all_features : supports_feature(capabilities[p], f)}],
         universal_features |-> universal,
         partial_support |-> [f \in partial |-> supported_platforms(f)]]

is_supported(m, feature) ==
    feature \in m.universal_features \/ feature \in DOMAIN m.partial_support

(***************************************************************************)
(* SpecFeatureMatrix: a caller fills a capability map and builds the       *)
(* FeatureMatrix from it.                                                  *)
(***************************************************************************)
MatrixPlatforms == {"MacOS", "Windows"}

\* The flags of the default capabilities of macOS and Windows that the test
\* reads, and no flag at all.
FlagChoices == {{}, {"actions", "rich_media"}, {"actions", "markup", "progress"}}

\* platform_features with a name the Windows backend registers, and empty.
PlatformFeatureChoices ==
    {[f \in {} |-> TRUE], [f \in {"adaptive_templates"} |-> TRUE]}

CapabilityChoices ==
    {PlatformCapabilities(fl, pf) : fl \in FlagChoices, pf \in PlatformFeatureChoices}

\* The feature names is_supported is asked about.
FeatureNames == all_features \cup {"adaptive_templates"}

EmptyCapabilities == [p \in {} |-> PlatformCapabilities({}, [f \in {} |-> TRUE])]

InitFeatureMatrix ==
    /\ clock = 0
    /\ lc = NotificationLifecycle_new(0, None, 1)
    /\ lastCall = NoCall
    /\ accepted = 0
    /\ retryVia = "Delivering"
    /\ platform_backends = {}
    /\ ManagerNew
    /\ builder = [made |-> FALSE]
    /\ auth = [made |-> FALSE]
    /\ matrix = [capabilities |-> EmptyCapabilities, built |-> FALSE]
    /\ mac = NoDeliveries
    /\ img = NoImages
    /\ rt = [made |-> FALSE]

\* capabilities.insert(platform, caps)
MatrixInsert(platform, caps) ==
    /\ platform \notin DOMAIN matrix.capabilities
    /\ matrix' = [matrix EXCEPT !.capabilities =
                    [p \in DOMAIN @ \cup {platform} |->
                        IF p = platform THEN caps ELSE @[p]]]
    /\ UNCHANGED <<clock, lcVars, mgrVars, builder, auth, procVars, mac>>

\* FeatureMatrix::from_capabilities(&capabilities)
MatrixBuild ==
    /\ matrix' = [capabilities |-> matrix.capabilities,
                  built |-> TRUE,
                  of |-> matrix.capabilities,
                  m |-> from_capabilities(matrix.capabilities)]
    /\ UNCHANGED <<clock, lcVars, mgrVars, builder, auth, procVars, mac>>

NextFeatureMatrix ==
    \/ \E platform \in MatrixPlatforms, caps \in CapabilityChoices :
            MatrixInsert(platform, caps)
    \/ MatrixBuild

SpecFeatureMatrix == InitFeatureMatrix /\ [][NextFeatureMatrix]_vars

\* C29: for every capability map M (the empty map included) and every feature
\* name f that supports_feature accepts, from_capabilities(M).is_supported(f)
\* is true exactly when some platform of M supports f, and f is in
\* universal_features exactly when every platform of M supports it.
C29_MatrixAgreesWithCapabilities ==
    matrix.built =>
        \A f \in FeatureNames :
            /\ is_supported(matrix.m, f) <=>
                    \E p \in DOMAIN matrix.of : supports_feature(matrix.of[p], f)
            /\ f \in matrix.m.universal_features <=>
                    \A p \in DOMAIN matrix.of : supports_feature(matrix.of[p], f)

(***************************************************************************)
(* NotificationBuilder (lib.rs).  A title, subtitle or body is modelled by *)
(* its length in bytes (String::len), what build() and validate() read of  *)
(* it; the body is RichText::Plain.  A media attachment is [valid |-> b],  *)
(* b being what MediaAttachment::validate answers for it.                  *)
(***************************************************************************)
NotificationContent_new(title, body) ==
    [title |-> title, subtitle |-> None, body |-> body, media |-> <<>>,
     priority |-> "Normal"]

NotificationBuilder_new == [content |-> None, platform_integration |-> None]

with_title(b, title) ==
    IF IsSome(b.content)
    THEN [b EXCEPT !.content = Some([Unwrap(@) EXCEPT !.title = title])]
    ELSE [b EXCEPT !.content = Some(NotificationContent_new(title, 0))]

with_body(b, body) ==
    IF IsSome(b.content)
    THEN [b EXCEPT !.content = Some([Unwrap(@) EXCEPT !.body = body])]
    ELSE [b EXCEPT !.content = Some(NotificationContent_new(0, body))]

with_priority(b, priority) ==
    IF IsSome(b.content)
    THEN [b EXCEPT !.content = Some([Unwrap(@) EXCEPT !.priority = priority])]
    ELSE b

with_platforms(b, platforms) ==
    [b EXCEPT !.platform_integration = Some(PlatformIntegration_new(platforms))]

with_subtitle(b, subtitle) ==
    IF IsSome(b.content)
    THEN [b EXCEPT !.content = Some([Unwrap(@) EXCEPT !.subtitle = Some(subtitle)])]
    ELSE [b EXCEPT !.content =
            Some([NotificationContent_new(0, 0) EXCEPT !.subtitle = Some(subtitle)])]

with_media(b, media) ==
    IF IsSome(b.content)
    THEN [b EXCEPT !.content = Some([Unwrap(@) EXCEPT !.media = Append(@, media)])]
    ELSE [b EXCEPT !.content =
            Some([NotificationContent_new(0, 0) EXCEPT !.media = <<media>>])]

\* Platform::default_capabilities().get_limits(): the two limits build() meets.
max_title_length(platform) ==
    CASE platform = "MacOS" -> Some(256)
      [] platform = "Windows" -> Some(128)
      [] platform = "Linux" -> Some(512)
      [] platform = "Web" -> Some(256)
      [] OTHER -> None

max_body_length(platform) ==
    CASE platform = "MacOS" -> Some(2048)
      [] platform = "Windows" -> Some(1024)
      [] platform = "Linux" -> Some(4096)
      [] platform = "Web" -> Some(2048)
      [] OTHER -> None

\* Platform::name
Platform_name(platform) ==
    CASE platform = "MacOS" -> "macOS"
      [] platform = "IOs" -> "iOS"
      [] OTHER -> platform

BuildOk(n) == [kind |-> "Ok", notification |-> Some(n)]

BuildErr(kind) == [kind |-> kind, notification |-> None]

TitleTooLong(platform, length, max) ==
    [kind |-> "TitleTooLong", notification |-> None,
     platform |-> platform, length |-> length, max |-> max]

\* NotificationContent::validate(&limits) for the limits of one platform:
\* the field of the ValidationError, or None for Ok.
validate(content, platform) ==
    IF content.title = 0 THEN Some("title")
    ELSE IF IsSome(max_title_length(platform))
            /\ content.title > Unwrap(max_title_length(platform)) THEN Some("title")
    ELSE IF IsSome(max_body_length(platform))
            /\ content.body > Unwrap(max_body_length(platform)) THEN Some("body")
    ELSE IF \E k \in DOMAIN content.media : ~content.media[k].valid THEN Some("media")
    ELSE None

\* A mutant of validate_platforms: no platform limit is checked.
validate_platforms_lenient(content, platforms, k) == None

\* The loop of build() over the target platforms from position k: the first
\* error it returns, or None when it runs to the end.
RECURSIVE validate_platforms(_, _, _)
validate_platforms(content, platforms, k) ==
    IF k > Len(platforms) THEN None
    ELSE LET platform == platforms[k]
             max_title == max_title_length(platform)
         IN  IF IsSome(max_title) /\ content.title > Unwrap(max_title)
             THEN Some(TitleTooLong(Platform_name(platform), content.title,
                                    Unwrap(max_title)))
             ELSE IF IsSome(validate(content, platform))
                  THEN Some([kind |-> "ValidationError", notification |-> None,
                             field |-> Unwrap(validate(content, platform))])
                  ELSE validate_platforms(content, platforms, k + 1)

default_platforms == <<"MacOS", "Windows", "Linux">>

\* The platforms build() validates against.
build_platforms(b) ==
    IF IsSome(b.platform_integration)
    THEN Unwrap(b.platform_integration).target_platforms
    ELSE default_platforms

\* build() from the loop over the platforms on.
build_validated(b, now) ==
    LET err == validate_platforms(Unwrap(b.content), build_platforms(b), 1)
    IN  IF IsSome(err) THEN Unwrap(err)
        ELSE BuildOk([content |-> Unwrap(b.content),
                      platform_integration |->
                            IF IsSome(b.platform_integration)
                            THEN Unwrap(b.platform_integration)
                            ELSE PlatformIntegration_new(build_platforms(b)),
                      lifecycle |-> NotificationLifecycle_new(now, None, 1)])

\* A mutant of NotificationBuilder_build: the platforms are checked before the title.
NotificationBuilder_build_platforms_first(b, now) ==
    IF b.content = None THEN BuildErr("MissingContent")
    ELSE IF build_platforms(b) = <<>> THEN BuildErr("NoPlatforms")
    ELSE IF Unwrap(b.content).title = 0 THEN BuildErr("MissingTitle")
    ELSE build_validated(b, now)

\* NotificationBuilder::build
NotificationBuilder_build(b, now) ==
    IF b.content = None THEN BuildErr("MissingContent")
    ELSE IF Unwrap(b.content).title = 0 THEN BuildErr("MissingTitle")
    ELSE IF build_platforms(b) = <<>> THEN BuildErr("NoPlatforms")
    ELSE build_validated(b, now)

(***************************************************************************)
(* SpecBuilder: a caller makes setter calls on a NotificationBuilder and   *)
(* builds it; build() consumes the builder and the caller takes a new one. *)
(***************************************************************************)
MaxMedia == 1
MaxPlatforms == 2

\* Lengths around the title limits (128, 256, 512) and the body limits.
TitleLengths == {0, 128, 129, 257, 513}
BodyLengths == {0, 4, 2049}
SubtitleLengths == {8}
Priorities == {"Normal", "High"}
MediaChoices == {[valid |-> TRUE], [valid |-> FALSE]}
BuilderPlatforms == {"MacOS", "Windows", "Linux"}
PlatformLists == UNION {[1..n -> BuilderPlatforms] : n \in 0..MaxPlatforms}

ContentSetters == {"with_title", "with_body", "with_subtitle", "with_media"}

FreshBuilder == [b |-> NotificationBuilder_new, calls |-> {}, built |-> FALSE]

InitBuilder ==
    /\ clock = 0
    /\ lc = NotificationLifecycle_new(0, None, 1)
    /\ lastCall = NoCall
    /\ accepted = 0
    /\ retryVia = "Delivering"
    /\ platform_backends = {}
    /\ ManagerNew
    /\ builder = FreshBuilder
    /\ auth = [made |-> FALSE]
    /\ matrix = [made |-> FALSE]
    /\ mac = NoDeliveries
    /\ img = NoImages
    /\ rt = [made |-> FALSE]

\* One setter call: name is the setter, b2 the builder it returns.
BuilderCall(name, b2) ==
    /\ ~builder.built
    /\ builder' = [builder EXCEPT !.b = b2, !.calls = @ \cup {name}]
    /\ UNCHANGED <<clock, lcVars, mgrVars, auth, matrix, procVars, mac>>

BuilderWithTitle(title) == BuilderCall("with_title", with_title(builder.b, title))

BuilderWithBody(body) == BuilderCall("with_body", with_body(builder.b, body))

BuilderWithPriority(priority) ==
    BuilderCall("with_priority", with_priority(builder.b, priority))

BuilderWithPlatforms(platforms) ==
    BuilderCall("with_platforms", with_platforms(builder.b, platforms))

BuilderWithSubtitle(subtitle) ==
    BuilderCall("with_subtitle", with_subtitle(builder.b, subtitle))

BuilderWithMedia(media) ==
    /\ IsSome(builder.b.content) => Len(Unwrap(builder.b.content).media) < MaxMedia
    /\ BuilderCall("with_media", with_media(builder.b, media))

BuilderBuild ==
    /\ ~builder.built
    /\ builder' = [b |-> builder.b, calls |-> builder.calls, built |-> TRUE,
                   result |-> NotificationBuilder_build(builder.b, clock)]
    /\ UNCHANGED <<clock, lcVars, mgrVars, auth, matrix, procVars, mac>>

\* NotificationBuilder::new() after a build.
BuilderNew ==
    /\ builder.built
    /\ builder' = FreshBuilder
    /\ UNCHANGED <<clock, lcVars, mgrVars, auth, matrix, procVars, mac>>

NextBuilder ==
    \/ \E title \in TitleLengths : BuilderWithTitle(title)
    \/ \E body \in BodyLengths : BuilderWithBody(body)
    \/ \E priority \in Priorities : BuilderWithPriority(priority)
    \/ \E platforms \in PlatformLists : BuilderWithPlatforms(platforms)
    \/ \E subtitle \in SubtitleLengths : BuilderWithSubtitle(subtitle)
    \/ \E media \in MediaChoices : BuilderWithMedia(media)
    \/ BuilderBuild
    \/ BuilderNew

SpecBuilder == InitBuilder /\ [][NextBuilder]_vars

\* C25: build() returns MissingContent when no content-setting call was made;
\* otherwise MissingTitle when the title is empty; otherwise NoPlatforms when
\* with_platforms was given an empty list; none of these produces a
\* Notification; and without a with_platforms call the platforms default to
\* [macOS, Windows, Linux] instead of failing with NoPlatforms.
C25_BuildErrorsInOrder ==
    builder.built =>
        LET b == builder.b
            r == builder.result
            no_content == builder.calls \cap ContentSetters = {}
            empty_title == ~no_content /\ Unwrap(b.content).title = 0
            empty_list == /\ "with_platforms" \in builder.calls
                          /\ Unwrap(b.platform_integration).target_platforms = <<>>
        IN  /\ no_content => r.kind = "MissingContent"
            /\ (~no_content /\ empty_title) => r.kind = "MissingTitle"
            /\ (~no_content /\ ~empty_title /\ empty_list) => r.kind = "NoPlatforms"
            /\ r.kind \in {"MissingContent", "MissingTitle", "NoPlatforms"} =>
                    r.notification = None
            /\ "with_platforms" \notin builder.calls =>
                    /\ r.kind # "NoPlatforms"
                    /\ r.kind = "Ok" =>
                            Unwrap(r.notification).platform_integration.target_platforms
                                = default_platforms

\* build() was called with an empty title and an empty platform list.
C25_Witness ==
    /\ builder.built
    /\ builder.result.kind = "MissingTitle"
    /\ "with_platforms" \in builder.calls
    /\ Unwrap(builder.b.platform_integration).target_platforms = <<>>

\* The first target platform, in list order, whose title limit the title exceeds.
FirstExceeded(content, platforms) ==
    LET ks == {k \in DOMAIN platforms :
                /\ IsSome(max_title_length(platforms[k]))
                /\ content.title > Unwrap(max_title_length(platforms[k]))}
    IN  IF ks = {} THEN 0 ELSE CHOOSE k \in ks : \A j \in ks : k <= j

\* build() got past the MissingContent, MissingTitle and NoPlatforms checks.
ReachedLimits ==
    /\ builder.built
    /\ builder.result.kind \notin {"MissingContent", "MissingTitle", "NoPlatforms"}

\* C26 as stated: a successful build() has a non-empty title, a non-empty
\* target_platforms list, a title within max_title_length of every target
\* platform and lifecycle state Created; and when the title exceeds a target
\* platform's limit, build() fails with TitleTooLong carrying that platform's
\* name, the title length and the platform's maximum.
C26_TitleWithinLimits ==
    ReachedLimits =>
        LET content == Unwrap(builder.b.content)
            platforms == build_platforms(builder.b)
            r == builder.result
            k == FirstExceeded(content, platforms)
        IN  /\ r.kind = "Ok" =>
                LET n == Unwrap(r.notification)
                IN  /\ n.content.title # 0
                    /\ n.platform_integration.target_platforms # <<>>
                    /\ \A p \in Range(n.platform_integration.target_platforms) :
                            IsSome(max_title_length(p)) =>
                                n.content.title <= Unwrap(max_title_length(p))
                    /\ n.lifecycle.state = St("Created")
            /\ k # 0 =>
                r = TitleTooLong(Platform_name(platforms[k]), content.title,
                                 Unwrap(max_title_length(platforms[k])))

\* C26, amended: as above, but when the title exceeds a target platform's limit
\* build() fails with TitleTooLong for the first such platform of the list
\* unless NotificationContent::validate rejects the content for a platform
\* earlier in the list, and then it fails with that ValidationError.
C26_TitleWithinLimitsOrEarlierError ==
    ReachedLimits =>
        LET content == Unwrap(builder.b.content)
            platforms == build_platforms(builder.b)
            r == builder.result
            k == FirstExceeded(content, platforms)
            earlier == {j \in 1..(k - 1) : IsSome(validate(content, platforms[j]))}
        IN  /\ r.kind = "Ok" =>
                LET n == Unwrap(r.notification)
                IN  /\ n.content.title # 0
                    /\ n.platform_integration.target_platforms # <<>>
                    /\ \A p \in Range(n.platform_integration.target_platforms) :
                            IsSome(max_title_length(p)) =>
                                n.content.title <= Unwrap(max_title_length(p))
                    /\ n.lifecycle.state = St("Created")
            /\ (k # 0 /\ earlier = {}) =>
                r = TitleTooLong(Platform_name(platforms[k]), content.title,
                                 Unwrap(max_title_length(platforms[k])))
            /\ (k # 0 /\ earlier # {}) =>
                /\ r.kind = "ValidationError"
                /\ r.notification = None

\* build() returned TitleTooLong for the second platform of the list.
C26_Witness ==
    /\ builder.built
    /\ builder.result.kind = "TitleTooLong"
    /\ builder.result.platform = "Windows"
    /\ builder.result.length = 129
    /\ build_platforms(builder.b) = <<"Linux", "Windows">>

(***************************************************************************)
(* Properties of the delivery worker's deliver phase.                      *)
(***************************************************************************)

\* C30: when backend.request_authorization() returns granted for a pair (id, p)
\* that was unauthorized at collect time, the worker records Authorized for p
\* and invokes backend.deliver for (id, p) in that same tick: once the deliver
\* phase of the tick is over, a Success or Failure result exists for the pair.
C30_GrantedIsDeliveredInTheSameTick ==
    dw.pc \in {"commit", "idle"} =>
        \A k \in DOMAIN dw.jobs :
            LET job == dw.jobs[k]
            IN  (/\ ~job.is_authorized
                 /\ job.platform \in platform_backends
                 /\ job.notification_id \in DOMAIN store
                 /\ store[job.notification_id].platform_integration
                        .authorization_states[job.platform] = "Authorized") =>
                    \E j \in DOMAIN dw.results :
                        /\ dw.results[j].notification_id = job.notification_id
                        /\ dw.results[j].platform = job.platform
                        /\ dw.results[j].kind \in {"Success", "Failure"}

\* The delivery worker is awaiting backend.request_authorization() or
\* backend.deliver_notification().
DwAwaitsBackend == dw.pc \in {"deliver", "deliver_granted"}

\* C27: while the delivery worker awaits a backend call it holds no guard on
\* the store: a status/track read and the other workers' writes can lock every
\* entry, and the results buffered so far have not been applied to the store.
C27_NoGuardAcrossBackendCall ==
    DwAwaitsBackend =>
        /\ \A g \in rt.guards : g[1] # "delivery_worker"
        /\ \A id \in DOMAIN store :
              /\ CanRead(rt, id, "caller")
              /\ CanWrite(rt, id, "lifecycle_monitor")
              /\ CanWrite(rt, id, "analytics_aggregator")
        /\ \A j \in DOMAIN dw.results :
              (dw.results[j].kind = "Success"
                    /\ dw.results[j].notification_id \in DOMAIN store) =>
                 StatusOf(dw.results[j].notification_id, dw.results[j].platform)
                    # "Delivered"

\* The worker awaits the second backend call of a tick: the record was moved
\* to Delivering under its entry lock and a Success result is buffered.
C27_Witness ==
    /\ DwAwaitsBackend
    /\ dw.i = 2
    /\ dw.results # <<>>
    /\ dw.results[1].kind = "Success"
    /\ dw.results[1].notification_id \in DOMAIN store
    /\ store[dw.results[1].notification_id].lifecycle.state = St("Delivering")

(***************************************************************************)
(* SpecCancel: shutdown_with_timeout with PHASE 2 followed await by await. *)
(* `for entry in self.state.iter()` keeps the shard of the entry it stands *)
(* on read-locked across the timeout(2 s, cancel_notification).await calls *)
(* made for it; the timeout needs the runtime to drive its timer.  The     *)
(* runtime is the caller's: current_thread (one thread, as #[tokio::test]  *)
(* builds it) or multi_thread with more threads than there are workers.    *)
(***************************************************************************)
ThreadChoices == {1, Cardinality(Workers) + 1}

InitCancel ==
    /\ clock = 0
    /\ lc = NotificationLifecycle_new(0, None, 1)
    /\ lastCall = [made |-> FALSE]
    /\ accepted = 0
    /\ retryVia = "Delivering"
    /\ platform_backends \in get_supported_backends
    /\ ManagerNew
    /\ builder = [made |-> FALSE]
    /\ auth = [made |-> FALSE]
    /\ matrix = [made |-> FALSE]
    /\ mac = NoDeliveries
    /\ img = NoImages
    /\ \E n \in ThreadChoices : rt = Runtime(n)

\* The entry the PHASE 2 iterator stands on, read-locked.
shutdown_guard(id) == <<"shutdown", id, "read">>

\* PHASE 2: the iterator moves to entry id and locks its shard.  A record that
\* is not Delivering, or has no target with a backend, is passed at once.
CancelLock(id) ==
    /\ Polled(rt, "shutdown")
    /\ sd.pc = "cancel"
    /\ sd.pending = <<>>
    /\ id \in DOMAIN store \ sd.visited
    /\ CanRead(rt, id, "shutdown")
    /\ LET calls == cancel_calls_for(store[id])
       IN  /\ sd' = IF calls = <<>> THEN [sd EXCEPT !.visited = @ \cup {id}]
                    ELSE [sd EXCEPT !.pending = calls]
           /\ rt' = IF calls = <<>> THEN rt
                    ELSE hold(rt, "shutdown", {shutdown_guard(id)})
    /\ UNCHANGED <<fnVars, img,
                   clock, lcVars, platform_backends, notif, store, inserts, lastSend, dw,
                   shutdown_sent, running, panicked>>

\* PHASE 2: timeout(2 s, backend.cancel_notification(id)).await resolves, to
\* Ok(Ok), Ok(Err) or Err(Elapsed); after the entry's last call the iterator
\* leaves the entry and the tasks waiting for its shard go on.
CancelCall(outcome) ==
    /\ Polled(rt, "shutdown")
    /\ sd.pc = "cancel"
    /\ sd.pending # <<>>
    /\ LET call == Head(sd.pending)
           last == Len(sd.pending) = 1
       IN  /\ sd' = [sd EXCEPT !.pending = Tail(@),
                               !.cancel_calls = Append(@, call),
                               !.visited = IF last THEN @ \cup {call.notification_id}
                                           ELSE @]
           /\ rt' = IF last
                    THEN [hold(rt, "shutdown", {}) EXCEPT !.parked = {}]
                    ELSE rt
    /\ UNCHANGED <<fnVars, img,
                   clock, lcVars, platform_backends, notif, store, inserts, lastSend, dw,
                   shutdown_sent, running, panicked>>

\* The entries worker w write-locks at its next step: iter_mut() of the
\* monitor and of the aggregator goes through every shard, the delivery
\* worker's get_mut takes the entry of its job or result.
wants_write(w) ==
    IF w = "delivery_worker"
    THEN IF dw.pc = "transition" /\ dw.jobs[dw.i].is_authorized
         THEN {dw.jobs[dw.i].notification_id} \cap DOMAIN store
         ELSE IF dw.pc = "commit"
         THEN {dw.results[dw.i].notification_id} \cap DOMAIN store
         ELSE {}
    ELSE DOMAIN store

\* Worker w is polled, asks for a write lock on a shard that is read-locked
\* and blocks the thread it runs on.
WorkerParks(w) ==
    /\ w \in running
    /\ Polled(rt, w)
    /\ \E id \in wants_write(w) : ~CanWrite(rt, id, w)
    /\ rt' = [rt EXCEPT !.parked = @ \cup {w}]
    /\ UNCHANGED <<fnVars, img,
                   clock, lcVars, sdVars, platform_backends, notif, store, inserts, lastSend,
                   dw, shutdown_sent, running>>

ShutdownStep ==
    \/ ShutdownBegin
    \/ \E id \in Ids : CancelLock(id)
    \/ \E outcome \in {"Ok", "Err", "Elapsed"} : CancelCall(outcome)
    \/ ShutdownSignal
    \/ ShutdownJoined
    \/ ShutdownTimedOut

NextCancel ==
    \/ \E id \in Ids, platforms \in TargetLists,
          delivery_timeout \in DeliveryTimeoutChoices :
            Build(id, platforms, None, delivery_timeout)
    \/ \E id \in Ids, target \in {St("Validating"), St("PlatformRouting")},
          reason \in CallReasons :
            CallerTransition(id, target, reason)
    \/ \E id \in Ids, platform \in TargetPool : CallerAuthorize(id, platform, "Authorized")
    \/ \E id \in Ids : Send(id)
    \/ MonitorStep
    \/ DwAnyStep
    \/ \E w \in Workers : WorkerParks(w)
    \/ \E w \in Workers : WorkerExit(w)
    \/ ShutdownStep

\* The caller awaits shutdown_with_timeout: the runtime keeps polling it as
\* long as it can make a step.
SpecCancel == InitCancel /\ [][NextCancel]_vars /\ WF_vars(ShutdownStep)

\* C21: shutdown_with_timeout, once called, returns a ShutdownResult, whatever
\* the cancel calls answer and whatever the workers do.
C21_ShutdownReturns == (sd.pc # "none") ~> (sd.pc = "done")

(***************************************************************************)
(* SpecImages: download_image calls of two callers on a multi_thread       *)
(* runtime, the operations on the DashMap taken one at a time.             *)
(* SpecCleanup: the same calls next to the shutdown_with_timeout of a      *)
(* manager with an empty store.                                            *)
(***************************************************************************)
MaxDownloads == 3
MaxTicks == 1

\* The urls the callers ask for: one the full cache holds, one it does not.
DownloadUrls == {1, MAX_CACHE_ENTRIES + 2}

\* MAX_CACHE_ENTRIES downloads of different urls have completed, one in each
\* millisecond.
FullCache ==
    ImageState(TRUE, [u \in 1..MAX_CACHE_ENTRIES |-> CachedImage(u, u)],
               1..MAX_CACHE_ENTRIES, MAX_CACHE_ENTRIES, MAX_CACHE_ENTRIES,
               [c \in Callers |-> NoDownload], 0)

\* c1 and c2 asked for url 1 and both missed; c1's GET completed and its file 1
\* was inserted; MAX_CACHE_ENTRIES downloads of other urls completed, one in
\* each of the next milliseconds; c2 still awaits its GET (the client gives
\* it 30 s).
RacedCache ==
    ImageState(TRUE,
               [u \in 1..(MAX_CACHE_ENTRIES + 1) |-> CachedImage(u, u)],
               1..(MAX_CACHE_ENTRIES + 1), MAX_CACHE_ENTRIES + 1, MAX_CACHE_ENTRIES + 1,
               [c \in Callers |-> IF c = "c2" THEN DownloadCall("get", 1, None)
                                  ELSE NoDownload],
               1)

InitImagesFrom(caches) ==
    /\ clock = 0
    /\ lc = NotificationLifecycle_new(0, None, 1)
    /\ lastCall = [made |-> FALSE]
    /\ accepted = 0
    /\ retryVia = "Delivering"
    /\ platform_backends = CHOOSE b \in get_supported_backends : TRUE
    /\ ManagerNew
    /\ builder = [made |-> FALSE]
    /\ auth = [made |-> FALSE]
    /\ matrix = [made |-> FALSE]
    /\ mac = NoDeliveries
    /\ img \in caches
    /\ rt = Runtime(Cardinality(Workers) + 1)

InitImages == InitImagesFrom({NoImages, FullCache, RacedCache})

InitCleanup == InitImagesFrom({RacedCache})

otherVars == <<fnVars, rt, clock, lcVars, mgrVars>>

\* download_image up to cache.retain(..) of evict_stale_entries.
DownloadBegin(c, url) ==
    /\ img.calls[c].pc = "idle"
    /\ img.begun < MaxDownloads
    /\ LET stale == IF url \in DOMAIN img.cache
                          /\ img.now - img.cache[url].cached_at >= cache_ttl
                    THEN Some(img.cache[url].path) ELSE None
       IN  img' = [img EXCEPT !.made = TRUE,
                              !.cache = retain_valid(@, img.now),
                              !.disk = @ \ retain_unlinked(img.cache, img.now),
                              !.begun = @ + 1,
                              !.calls[c] = DownloadCall("cap", url, stale)]
    /\ UNCHANGED otherVars

\* evict_stale_entries: `while cache.len() > MAX_CACHE_ENTRIES` and the search
\* for the oldest key; the pass returns when the test fails.
DownloadCap(c) ==
    /\ img.calls[c].pc = "cap"
    /\ LET over == Cardinality(DOMAIN img.cache) > MAX_CACHE_ENTRIES
       IN  \E k \in (IF over THEN oldest_keys(img.cache) ELSE {0}) :
              img' = [img EXCEPT !.calls[c].pc = IF over THEN "remove" ELSE "lookup",
                                 !.calls[c].key = k]
    /\ UNCHANGED otherVars

\* evict_stale_entries: cache.remove(&key) and, if an entry was there, the
\* unlink of its file.
DownloadRemove(c) ==
    /\ img.calls[c].pc = "remove"
    /\ LET key == img.calls[c].key
           there == key \in DOMAIN img.cache
       IN  img' = [img EXCEPT !.cache = IF there THEN cache_remove(@, key) ELSE @,
                              !.disk = IF there THEN @ \ {img.cache[key].path} ELSE @,
                              !.calls[c].pc = "cap",
                              !.calls[c].key = 0]
    /\ UNCHANGED otherVars

\* download_image: cache.get(&url_string) and cached.path.exists().
DownloadLookup(c) ==
    /\ img.calls[c].pc = "lookup"
    /\ LET url == img.calls[c].url
           hit == url \in DOMAIN img.cache
           exists == hit /\ img.cache[url].path \in img.disk
       IN  img' = IF exists
                  THEN [img EXCEPT !.calls[c] =
                            Returned(@, ResolvedImage(img.cache[url].path, "cache"))]
                  ELSE [img EXCEPT !.calls[c].pc = IF hit THEN "gone" ELSE "get"]
    /\ UNCHANGED otherVars

\* download_image: the cached file was deleted, cache.remove(&url_string).
DownloadRemoveGone(c) ==
    /\ img.calls[c].pc = "gone"
    /\ img' = [img EXCEPT !.cache = cache_remove(@, img.calls[c].url),
                          !.calls[c].pc = "get"]
    /\ UNCHANGED otherVars

\* download_image: the GET, the checks on the response and the temp file.  A
\* failure returns the error; a temp file that cannot be written or kept is
\* deleted when it is dropped.
DownloadGet(c, ok) ==
    /\ img.calls[c].pc = "get"
    /\ img' = IF ok
              THEN [img EXCEPT !.files = @ + 1,
                               !.disk = @ \cup {img.files + 1},
                               !.calls[c].path = img.files + 1,
                               !.calls[c].pc = "insert"]
              ELSE [img EXCEPT !.calls[c] = Returned(@, ResourceError)]
    /\ UNCHANGED otherVars

\* download_image: keep(), cache.insert(url_string, ..) and Ok(..).
DownloadInsert(c) ==
    /\ img.calls[c].pc = "insert"
    /\ LET call == img.calls[c]
       IN  img' = [img EXCEPT !.cache = cache_insert(@, call.url,
                                                     CachedImage(call.path, img.now)),
                              !.calls[c] =
                                 Returned(@, ResolvedImage(call.path, "download"))]
    /\ UNCHANGED otherVars

\* cleanup_temp_image(image), by the caller the image was returned to.
CleanupTempImage(c) ==
    /\ img.calls[c].pc = "idle"
    /\ img.calls[c].ret.kind = "Ok"
    /\ img.calls[c].ret.path \in img.disk
    /\ img' = [img EXCEPT !.disk = @ \ {img.calls[c].ret.path}]
    /\ UNCHANGED otherVars

\* Time passes: a millisecond, or cache_ttl.
ImgTick(d) ==
    /\ img.ticks < MaxTicks
    /\ img' = [img EXCEPT !.now = @ + d, !.ticks = @ + 1]
    /\ UNCHANGED otherVars

DownloadStep(c) ==
    \/ \E url \in DownloadUrls : DownloadBegin(c, url)
    \/ DownloadCap(c)
    \/ DownloadRemove(c)
    \/ DownloadLookup(c)
    \/ DownloadRemoveGone(c)
    \/ \E ok \in BOOLEAN : DownloadGet(c, ok)
    \/ DownloadInsert(c)

NextImages ==
    \/ \E c \in Callers : DownloadStep(c)
    \/ \E c \in Callers : CleanupTempImage(c)
    \/ \E d \in {1, cache_ttl} : ImgTick(d)

SpecImages == InitImages /\ [][NextImages]_vars

NextCleanup ==
    \/ NextImages
    \/ ShutdownBegin
    \/ ShutdownSignal
    \/ \E w \in Workers : WorkerExit(w)
    \/ ShutdownJoined
    \/ ShutdownTimedOut

SpecCleanup == InitCleanup /\ [][NextCleanup]_vars

\* The call of c returns in this step.
Returns(c) == img.calls[c].pc # "idle" /\ img'.calls[c].pc = "idle"

\* C22: when an eviction pass returns the cache holds at most
\* MAX_CACHE_ENTRIES entries, and an entry removed to get under the cap has
\* the smallest cached_at of the entries the cache holds.
C22_CapEvictsOldest ==
    [][\A c \in Callers :
        /\ (img.calls[c].pc = "cap" /\ img'.calls[c].pc = "lookup") =>
                Cardinality(DOMAIN img'.cache) <= MAX_CACHE_ENTRIES
        /\ (img.calls[c].pc = "remove" /\ img'.calls[c].pc = "cap"
                /\ DOMAIN img'.cache # DOMAIN img.cache) =>
                \A u \in DOMAIN img.cache :
                    img.cache[img.calls[c].key].cached_at <= img.cache[u].cached_at
      ]_vars

C24_CleanupUnlinksEveryFile ==
    [][(sd.pc = "join" /\ sd'.pc = "done"
            /\ \A c \in Callers : img.calls[c].pc = "idle") =>
        (img'.cache = NoCache /\ img'.disk = {})]_vars

\* C34: while shutdown_with_timeout awaits a backend.cancel_notification call
\* it holds no guard on the store, and no worker is blocked inside a lock.
C34_NoGuardAcrossCancel ==
    (sd.pc = "cancel" /\ sd.pending # <<>>) =>
        /\ \A g \in rt.guards : g[1] # "shutdown"
        /\ \A id \in DOMAIN store : CanWrite(rt, id, "lifecycle_monitor")
        /\ rt.parked = {}

(***************************************************************************)
(* SpecBuilderOrder: a caller makes each content setter at most once, in   *)
(* any order, and builds; log keeps the calls in the order they were made. *)
(***************************************************************************)
SetterCall(name, arg) == [name |-> name, arg |-> arg]

SetterCalls ==
    {SetterCall("with_title", t) : t \in TitleLengths}
        \cup {SetterCall("with_body", x) : x \in BodyLengths}
        \cup {SetterCall("with_subtitle", x) : x \in SubtitleLengths}
        \cup {SetterCall("with_priority", p) : p \in Priorities}
        \cup {SetterCall("with_media", m) : m \in MediaChoices}

\* The builder the setter call returns.
apply_setter(b, call) ==
    CASE call.name = "with_title" -> with_title(b, call.arg)
      [] call.name = "with_body" -> with_body(b, call.arg)
      [] call.name = "with_subtitle" -> with_subtitle(b, call.arg)
      [] call.name = "with_priority" -> with_priority(b, call.arg)
      [] call.name = "with_media" -> with_media(b, call.arg)

OrderedBuilder(b, log) ==
    [b |-> b, log |-> log, built |-> FALSE, result |-> BuildErr("NotBuilt")]

InitBuilderOrder ==
    /\ clock = 0
    /\ lc = NotificationLifecycle_new(0, None, 1)
    /\ lastCall = NoCall
    /\ accepted = 0
    /\ retryVia = "Delivering"
    /\ platform_backends = {}
    /\ ManagerNew
    /\ builder = OrderedBuilder(NotificationBuilder_new, <<>>)
    /\ auth = [made |-> FALSE]
    /\ matrix = [made |-> FALSE]
    /\ mac = NoDeliveries
    /\ img = NoImages
    /\ rt = [made |-> FALSE]

OrderCall(call) ==
    /\ ~builder.built
    /\ \A k \in DOMAIN builder.log : builder.log[k].name # call.name
    /\ builder' = OrderedBuilder(apply_setter(builder.b, call), Append(builder.log, call))
    /\ UNCHANGED <<clock, lcVars, mgrVars, auth, matrix, procVars, mac>>

OrderBuild ==
    /\ ~builder.built
    /\ builder' = [builder EXCEPT !.built = TRUE,
                                  !.result = NotificationBuilder_build(builder.b, clock)]
    /\ UNCHANGED <<clock, lcVars, mgrVars, auth, matrix, procVars, mac>>

OrderNew ==
    /\ builder.built
    /\ builder' = OrderedBuilder(NotificationBuilder_new, <<>>)
    /\ UNCHANGED <<clock, lcVars, mgrVars, auth, matrix, procVars, mac>>

NextBuilderOrder ==
    \/ \E call \in SetterCalls : OrderCall(call)
    \/ OrderBuild
    \/ OrderNew

SpecBuilderOrder == InitBuilderOrder /\ [][NextBuilderOrder]_vars

\* The calls of log made in the order title, body, subtitle, priority, media.
SetterOrder == <<"with_title", "with_body", "with_subtitle", "with_priority", "with_media">>

RECURSIVE InSetterOrder(_, _, _)
InSetterOrder(b, log, k) ==
    IF k > Len(SetterOrder) THEN b
    ELSE LET made == {j \in DOMAIN log : log[j].name = SetterOrder[k]}
         IN  InSetterOrder(IF made = {} THEN b
                           ELSE apply_setter(b, log[CHOOSE j \in made : TRUE]),
                           log, k + 1)

\* C38: build() returns what it returns for the same setter calls made in
\* another order, and a successful build after with_priority(p) has
\* content.priority = p.
C38_SetterOrderIsIrrelevant ==
    builder.built =>
        /\ builder.result =
              NotificationBuilder_build(
                  InSetterOrder(NotificationBuilder_new, builder.log, 1), clock)
        /\ \A k \in DOMAIN builder.log :
              (builder.log[k].name = "with_priority" /\ builder.result.kind = "Ok") =>
                 Unwrap(builder.result.notification).content.priority = builder.log[k].arg

(***************************************************************************)
(* SpecResend: Notification is Clone; the caller keeps a clone of what it  *)
(* sent and sends it again.                                                *)
(***************************************************************************)
MaxSends == 2

\* send(n.clone()) of a notification that was sent before.
SendClone(id) ==
    /\ notif[id].built
    /\ inserts[id] >= 1
    /\ inserts[id] < MaxSends
    /\ sd.pc = "none"
    /\ LET res == send(notif[id], clock)
       IN  /\ lastSend' = [made |-> TRUE, id |-> id, ok |-> res.ok, input |-> notif[id]]
           /\ store' = IF res.ok THEN store_insert(store, id, res.record) ELSE store
           /\ inserts' = IF res.ok THEN [inserts EXCEPT ![id] = @ + 1] ELSE inserts
    /\ UNCHANGED <<fnVars, procVars,
                   clock, lcVars, sdVars, platform_backends, notif, dw, shutdown_sent, running>>

NextResend ==
    \/ \E id \in Ids, platforms \in TargetLists,
          delivery_timeout \in DeliveryTimeoutChoices :
            Build(id, platforms, None, delivery_timeout)
    \/ \E id \in Ids, target \in {St("Validating"), St("PlatformRouting")},
          reason \in CallReasons :
            CallerTransition(id, target, reason)
    \/ \E id \in Ids, platform \in TargetPool : CallerAuthorize(id, platform, "Authorized")
    \/ \E id \in Ids : Send(id)
    \/ \E id \in Ids : SendClone(id)
    \/ MonitorStep
    \/ DwAnyStep

SpecResend == Init /\ [][NextResend]_vars

\* C39: no record leaves the store, the lifecycle state of a stored record
\* changes only along a pair of the transition table, and a platform_states
\* entry, once there, stays.
C39_StoredRecordIsNeverReplaced ==
    [][\A id \in DOMAIN store :
        /\ id \in DOMAIN store'
        /\ store'[id].lifecycle.state # store[id].lifecycle.state =>
                can_transition_to(store[id].lifecycle.state, store'[id].lifecycle.state)
        /\ \A p \in Platform :
                store[id].lifecycle.platform_states[p].status # "Absent" =>
                    store'[id].lifecycle.platform_states[p].status # "Absent"
      ]_vars

(***************************************************************************)
(* The delivery worker between its collect and deliver phases.             *)
(***************************************************************************)
\* The record's transition to Delivering took effect: transition_to pushed
\* the DeliveryStarted entry (it pushes only when the move is allowed).
DeliveryStarted(id) ==
    /\ id \in DOMAIN store
    /\ \E k \in DOMAIN store[id].lifecycle.state_history :
            store[id].lifecycle.state_history[k].reason = "DeliveryStarted"

\* C35: backend.deliver is invoked for (id, p) only if the record's move to
\* Delivering took effect; a record the monitor expired between the collect
\* phase and the transition phase is not delivered.
C35_DeliverOnlyAfterTransition ==
    \A id \in Ids : \A p \in TargetPool :
        DeliverInvoked(id, p) => DeliveryStarted(id)

\* C36: within one tick backend.deliver is invoked at most once for a pair
\* (notification id, platform), whatever target_platforms list build()
\* accepted: no two results of a tick's deliver calls name the same pair.
C36_OneDeliverPerTickAndPlatform ==
    \A a, b \in DOMAIN dw.results :
        (/\ a # b
         /\ dw.results[a].kind \in {"Success", "Failure"}
         /\ dw.results[b].kind \in {"Success", "Failure"}
         /\ dw.results[a].notification_id = dw.results[b].notification_id) =>
            dw.results[a].platform # dw.results[b].platform

\* C40: once shutdown_with_timeout has returned, whatever its result, no
\* step changes a store record and no step is a backend call of the delivery
\* worker (request_authorization, deliver).
C40_NoWorkAfterShutdownReturns ==
    [][ sd.pc = "done" =>
            /\ store' = store
            /\ ~ \E r \in BOOLEAN : DwRequestAuthorization(r) \/ DwDeliver(r) ]_vars

(***************************************************************************)
(* The circuit breaker of RetryPolicy.                                     *)
(***************************************************************************)
\* C31: the breaker leaves Open or HalfOpen for Closed only after a delivery
\* success has been recorded (record_delivery_attempt(Success) stores the
\* receipt); it never closes with no success recorded.
C31_ClosedOnlyAfterSuccess ==
    [][ (/\ lc.retry_policy.circuit_breaker_state \in {"Open", "HalfOpen"}
         /\ lc'.retry_policy.circuit_breaker_state = "Closed") =>
            IsSome(lc.delivery_receipt) ]_vars

(***************************************************************************)
(* SpecSequential: download_image calls made one after the other; the      *)
(* callers take turns, so the call before the one of c is the one of the   *)
(* other caller.  A caller may unlink the file it was returned             *)
(* (cleanup_temp_image) between the calls.                                 *)
(***************************************************************************)
InitSequential == InitImagesFrom({NoImages, FullCache})

\* The caller of the call after n calls.
SeqCaller(n) == IF n % 2 = 0 THEN "c1" ELSE "c2"

SeqBegin(c, url) ==
    /\ \A o \in Callers : img.calls[o].pc = "idle"
    /\ c = SeqCaller(img.begun)
    /\ DownloadBegin(c, url)

NextSequential ==
    \/ \E c \in Callers, url \in DownloadUrls : SeqBegin(c, url)
    \/ \E c \in Callers : DownloadCap(c)
    \/ \E c \in Callers : DownloadRemove(c)
    \/ \E c \in Callers : DownloadLookup(c)
    \/ \E c \in Callers : DownloadRemoveGone(c)
    \/ \E c \in Callers, ok \in BOOLEAN : DownloadGet(c, ok)
    \/ \E c \in Callers : DownloadInsert(c)
    \/ \E c \in Callers : CleanupTempImage(c)
    \/ \E d \in {1, cache_ttl} : ImgTick(d)

SpecSequential == InitSequential /\ [][NextSequential]_vars

\* The call before the one c is in was a download_image of the same url that
\* returned Ok, and the entry of the url was younger than cache_ttl when the
\* call of c began.
FollowsCallOf(c, o) ==
    /\ o # c
    /\ img.calls[o].pc = "idle"
    /\ img.calls[o].ret.kind = "Ok"
    /\ img.calls[o].url = img.calls[c].url
    /\ img.calls[c].stale = None

C32_WitnessRemoved ==
    \E c, o \in Callers :
        /\ FollowsCallOf(c, o)
        /\ c = SeqCaller(img.begun - 1)
        /\ img.calls[c].pc = "idle"
        /\ img.calls[o].ret.path \notin img.disk
        /\ img.calls[c].ret.via = "download"
        /\ img.cache[img.calls[c].url].path = img.calls[c].ret.path

\* download_image returned a cached file to c, and c (the backend that
\* resolves the media of the request it delivers) has made no call since.
HoldsImage(c) ==
    /\ img.calls[c].pc = "idle"
    /\ img.calls[c].ret.kind = "Ok"
    /\ img.calls[c].ret.path \in img.disk

\* C37: the file of a path handed to a caller stays on disk while the caller
\* uses it: no step of another download_image call (eviction by age or by
\* the cap) and no cleanup_all_cached_images of a shutdown unlinks it.
C37_HandedImageStaysOnDisk ==
    [][\A c \in Callers :
        (/\ HoldsImage(c)
         /\ \/ \E o \in Callers \ {c} : img'.calls[o] # img.calls[o]
            \/ sd' # sd) =>
            img.calls[c].ret.path \in img'.disk
      ]_vars

(***************************************************************************)
(* SpecMacDeliver: MacOSBackend::deliver_notification (backends/macos.rs)  *)
(* next to the notification center.  Per request identifier: the call, the *)
(* oneshot channel of the completion handler, the block the center         *)
(* retains, and whether the center holds the request in its pending or     *)
(* delivered queue.                                                        *)
(***************************************************************************)
MaxRequests == 2

Requests == 1..MaxRequests

\* pc: "none", "wait" (tokio::time::timeout(delivery_timeout, completion_rx))
\* or "returned"; chan: "none", "open", "true" / "false" (the value sent),
\* "closed" (sender dropped unsent) or "rx_dropped"; block: "none", "armed",
\* "fired" or "dropped"; scheduled: the center accepted the request;
\* cancels: the cancel_notification_sync calls made; ret: "None", "Ok", "Err".
NoDelivery ==
    [pc |-> "none", chan |-> "none", block |-> "none", scheduled |-> FALSE,
     pending |-> FALSE, delivered |-> FALSE, cancels |-> 0, ret |-> "None"]

\* A mutant of cancel_notification_sync: only the pending queue is cleared.
cancel_notification_pending_only(r) ==
    [r EXCEPT !.pending = FALSE, !.cancels = @ + 1]

\* cancel_notification_sync: removePendingNotificationRequestsWithIdentifiers
\* and removeDeliveredNotificationsWithIdentifiers.
cancel_notification_sync(r) ==
    [r EXCEPT !.pending = FALSE, !.delivered = FALSE, !.cancels = @ + 1]

InitMacDeliver ==
    /\ clock = 0
    /\ lc = NotificationLifecycle_new(0, None, 1)
    /\ lastCall = [made |-> FALSE]
    /\ accepted = 0
    /\ retryVia = "Delivering"
    /\ platform_backends = {"MacOS"}
    /\ ManagerNew
    /\ builder = [made |-> FALSE]
    /\ auth = [made |-> FALSE]
    /\ matrix = [made |-> FALSE]
    /\ mac = [id \in Requests |-> NoDelivery]
    /\ img = NoImages
    /\ rt = [made |-> FALSE]

macOther == <<clock, lcVars, mgrVars, builder, auth, matrix, procVars>>

\* deliver_notification up to the await on the channel: check_authorization,
\* then addNotificationRequest_withCompletionHandler.
MacDeliverBegin(id, authorized) ==
    /\ mac[id].pc = "none"
    /\ mac' = [mac EXCEPT ![id] =
                IF authorized
                THEN [@ EXCEPT !.pc = "wait", !.chan = "open", !.block = "armed"]
                ELSE [@ EXCEPT !.pc = "returned", !.ret = "Err"]]
    /\ UNCHANGED macOther

\* The center accepts the request it was handed: it is pending.
CenterSchedules(id) ==
    /\ mac[id].block # "none"
    /\ ~mac[id].scheduled
    /\ mac[id].block # "fired"
    /\ mac' = [mac EXCEPT ![id].scheduled = TRUE, ![id].pending = TRUE]
    /\ UNCHANGED macOther

\* The trigger (0.1 s) fires: the pending request is shown.
TriggerFires(id) ==
    /\ mac[id].pending
    /\ mac' = [mac EXCEPT ![id].pending = FALSE, ![id].delivered = TRUE]
    /\ UNCHANGED macOther

\* The completion block runs: error is null iff the center accepted the
\* request; sender.send(success), whose Err (receiver gone) is ignored.
CompletionFires(id) ==
    /\ mac[id].block = "armed"
    /\ mac' = [mac EXCEPT
                ![id].block = "fired",
                ![id].chan = IF @ = "open"
                             THEN (IF mac[id].scheduled THEN "true" ELSE "false")
                             ELSE @]
    /\ UNCHANGED macOther

\* The center releases the block without running it: the sender is dropped.
BlockDropped(id) ==
    /\ mac[id].block = "armed"
    /\ mac' = [mac EXCEPT ![id].block = "dropped",
                          ![id].chan = IF @ = "open" THEN "closed" ELSE @]
    /\ UNCHANGED macOther

\* The await returns what the channel holds: Ok(Ok(true)), Ok(Ok(false)) or
\* Ok(Err(_)).
MacDeliverReturn(id) ==
    /\ mac[id].pc = "wait"
    /\ mac[id].chan \in {"true", "false", "closed"}
    /\ mac' = [mac EXCEPT ![id] =
                IF mac[id].chan = "true"
                THEN [@ EXCEPT !.pc = "returned", !.ret = "Ok"]
                ELSE [cancel_notification_sync(@) EXCEPT !.pc = "returned", !.ret = "Err"]]
    /\ UNCHANGED macOther

\* Err(_elapsed): delivery_timeout passed with nothing in the channel; the
\* receiver is dropped with the timeout future.
MacDeliverTimeout(id) ==
    /\ mac[id].pc = "wait"
    /\ mac[id].chan = "open"
    /\ mac' = [mac EXCEPT ![id] =
                [cancel_notification_sync(@) EXCEPT !.pc = "returned", !.ret = "Err",
                                                    !.chan = "rx_dropped"]]
    /\ UNCHANGED macOther

NextMacDeliver ==
    \/ \E id \in Requests, authorized \in BOOLEAN : MacDeliverBegin(id, authorized)
    \/ \E id \in Requests : CenterSchedules(id)
    \/ \E id \in Requests : TriggerFires(id)
    \/ \E id \in Requests : CompletionFires(id)
    \/ \E id \in Requests : BlockDropped(id)
    \/ \E id \in Requests : MacDeliverReturn(id)
    \/ \E id \in Requests : MacDeliverTimeout(id)

SpecMacDeliver == InitMacDeliver /\ [][NextMacDeliver]_vars

\* C33: when deliver_notification returns after the hand-off to the center:
\* with an error (the block reported one, the channel closed, or the
\* timeout elapsed) the request is in neither queue and one cancel was
\* made; with a receipt only if the block had reported success, and no
\* cancel was made.  After the return a late callback changes neither.
C33_ErrorCancelsSuccessDoesNot ==
    [][\A id \in Requests :
        /\ (mac[id].pc = "wait" /\ mac'[id].pc = "returned") =>
                IF mac'[id].ret = "Err"
                THEN /\ ~mac'[id].pending
                     /\ ~mac'[id].delivered
                     /\ mac'[id].cancels = mac[id].cancels + 1
                ELSE /\ mac'[id].ret = "Ok"
                     /\ mac[id].chan = "true"
                     /\ mac'[id].cancels = 0
        /\ mac[id].pc = "returned" =>
                /\ mac'[id].ret = mac[id].ret
                /\ mac'[id].cancels = mac[id].cancels
      ]_vars

\* The call timed out with the request already shown, cancelled it, and the
\* completion block ran afterwards.
C33_Witness ==
    \E id \in Requests :
        /\ mac[id].pc = "returned"
        /\ mac[id].ret = "Err"
        /\ mac[id].chan = "rx_dropped"
        /\ mac[id].block = "fired"
        /\ mac[id].scheduled
        /\ mac[id].cancels = 1
        /\ ~mac[id].delivered
====
